---- MODULE Spec2Model ----
(***************************************************************************)
(* PantryManager: the planning-and-recommendation pipeline                 *)
(* (recommendation evaluator and ranker, demand aggregator, shopping list  *)
(* generator) and the sync envelope resolver, as pure operators applied by *)
(* the actions of small state machines.                                    *)
(*                                                                         *)
(* Numbers.  JavaScript numbers are modelled by integers:                  *)
(*  - recommendation quantities are whole numbers of the ingredient unit,  *)
(*    base quantities whole numbers of the base unit (g, ml, count);       *)
(*  - planner/shopping quantities are counted in ticks, TicksPerMilli      *)
(*    ticks to 0.001, so that toFixed(3) is a real rounding;               *)
(*  - times are milliseconds since the epoch;                              *)
(*  - +Infinity is the sentinel POSITIVE_INFINITY, above every finite      *)
(*    value the model produces.                                            *)
(* Binary floating-point representation error (0.1 + 0.2) is outside the   *)
(* model: sums and products are exact.                                     *)
(***************************************************************************)
EXTENDS Integers, Sequences, FiniteSets, TLC

VARIABLES
    recipes,          \* rankRecipeRecommendations: the candidate recipes (array)
    inventoryItems,   \* rankRecipeRecommendations: the inventory entities (array)
    now,              \* options.now, ms since the epoch
    evaluation,       \* <<>> or <<record>>: last evaluateRecipeRecommendation result
    recommendations,  \* <<>> or <<result>>: last rankRecipeRecommendations result
    planEntries,      \* aggregateIngredientDemand: the planned entries (array)
    recipeCatalog,    \* aggregateIngredientDemand: the available recipes (array)
    demandRows,       \* <<>> or <<rows>>: last aggregateIngredientDemand result
    shopDemand,       \* generateShoppingItems: the demand rows passed in (array)
    shoppingItems,    \* <<>> or <<items>>: last generateShoppingItems result
    localEnvelope,    \* <<>> (null) or <<envelope>>
    remoteEnvelope,   \* <<>> (null) or <<envelope>>
    syncOptions,      \* [driftToleranceMs |-> <<>> (not a finite number) or <<ms>>]
    decision,         \* <<>> or <<result>>: last compareSyncEnvelopes result
    resolution,       \* <<>> or <<result>>: last resolveSyncConflict result
    rawEnvelope,      \* migrateSyncEnvelope: the payload passed in (any JSON value)
    clockIso,         \* new Date().toISOString() as read by the first migration
    migrated,         \* <<>> or <<envelope>>: migrateSyncEnvelope(rawEnvelope)
    remigrated,       \* <<>> or <<envelope>>: migrateSyncEnvelope of that result
    retentionRecords, \* applyGeneralRetention: the records passed in (array)
    retentionOptions, \* applyGeneralRetention: now and the two day thresholds
    retentionResult,  \* <<>> or <<[active, archived, deleted]>>
    appState,         \* runRetentionJobs: the state passed to the next run
    jobNow,           \* runRetentionJobs: options.now of the last run (ticks)
    jobReport,        \* <<>> or <<report>>: report of the last run
    jobRuns,          \* number of runRetentionJobs runs so far
    pricePoints,   \* applyPricingRetention: the price points passed in (array)
    pricingOptions,   \* applyPricingRetention: now and retainMonths
    pricingResult,    \* <<>> or <<[retained, deleted]>>
    rollingEntries,   \* addMealPlanEntry: the meal-plan entries the caller holds
    plannedEntry,     \* <<>> or <<entry>>: the entry of the last addMealPlanEntry call
    addThrew,         \* whether the last addMealPlanEntry call threw
    addCalls,         \* number of addMealPlanEntry calls so far
    lookupPc,         \* per runLookup invocation: "idle", "awaiting" or "done"
    lookupBarcode,    \* per invocation: barcodeInput.value.trim()
    lookupAttempt,    \* per invocation: the loop counter of lookupWithRetry
    adapterCalls,     \* per invocation: adapter.lookupByBarcode calls made
    providerResults,  \* per invocation: the results the adapter returned, in order
    lookupFeedback,   \* per invocation: <<>> or <<[source, level, kind]>> shown at the end
    exportPc,         \* triggerExportOrSync: "idle", "downloading", "uploading" or "done"
    accessToken,      \* tokenField.value.trim()
    exportClock,      \* the device clock when the export is triggered (ms)
    localChangedAt,   \* when the local data last changed (ms)
    currentState,     \* the application state in memory
    storedState,      \* storage[STORAGE_KEYS.appState]: <<>> or <<state>>
    driveFile,        \* the sync file in Google Drive: <<>> or <<envelope>>
    syncStatus        \* the status line: "" or the kind of the last message

recVars == <<recipes, now, evaluation, recommendations>>

planVars == <<planEntries, recipeCatalog, demandRows>>

shopVars == <<shopDemand, shoppingItems>>

syncVars == <<localEnvelope, remoteEnvelope, syncOptions, decision, resolution>>

migVars == <<rawEnvelope, clockIso, migrated, remigrated>>

retVars == <<retentionRecords, retentionOptions, retentionResult>>

jobVars == <<appState, jobNow, jobReport, jobRuns>>

priceVars == <<pricePoints, pricingOptions, pricingResult>>

mealVars == <<rollingEntries, plannedEntry, addThrew, addCalls>>

lookupVars == <<lookupPc, lookupBarcode, lookupAttempt, adapterCalls, providerResults,
               lookupFeedback>>

exportVars == <<exportPc, accessToken, exportClock, localChangedAt, currentState,
               storedState, driveFile, syncStatus>>

lateVars == <<priceVars, mealVars, lookupVars, exportVars>>

otherVars == <<migVars, retVars, jobVars, lateVars>>

vars == <<inventoryItems, recVars, planVars, shopVars, syncVars, otherVars>>

----------------------------------------------------------------------------
(* Generic helpers *)

SeqsUpTo(S, n) == UNION {[1..k -> S] : k \in 0..n}

Range(s) == {s[i] : i \in 1..Len(s)}

\* All permutations of 1..n, as functions
Perms(n) == {p \in [1..n -> 1..n] : \A i, j \in 1..n : i # j => p[i] # p[j]}

Permuted(s, p) == [i \in 1..Len(s) |-> s[p[i]]]

Sign(x) == IF x < 0 THEN -1 ELSE IF x > 0 THEN 1 ELSE 0

----------------------------------------------------------------------------
(* Recommendations domain service *)

POSITIVE_INFINITY == 1000000

MS_PER_DAY == 86400000

\* The unit tokens the model draws from: registered ones and an unregistered one.
UNIT_TO_BASE ==
    [ g     |-> [family |-> "mass",   baseUnit |-> "g",     toBaseFactor |-> 1],
      kg    |-> [family |-> "mass",   baseUnit |-> "g",     toBaseFactor |-> 1000],
      ml    |-> [family |-> "volume", baseUnit |-> "ml",    toBaseFactor |-> 1],
      l     |-> [family |-> "volume", baseUnit |-> "ml",    toBaseFactor |-> 1000],
      cup   |-> [family |-> "volume", baseUnit |-> "ml",    toBaseFactor |-> 240],
      count |-> [family |-> "count",  baseUnit |-> "count", toBaseFactor |-> 1],
      unit  |-> [family |-> "count",  baseUnit |-> "count", toBaseFactor |-> 1],
      item  |-> [family |-> "count",  baseUnit |-> "count", toBaseFactor |-> 1],
      pcs   |-> [family |-> "count",  baseUnit |-> "count", toBaseFactor |-> 1] ]

MATCH_STATUS ==
    [ FULLY_SATISFIABLE     |-> "fully_satisfiable",
      PARTIALLY_SATISFIABLE |-> "partially_satisfiable" ]

\* Mutant: the quantity is not multiplied by the unit's factor.
normalizeToBase_FactorIgnored(quantity, unit) ==
    IF unit \notin DOMAIN UNIT_TO_BASE
    THEN [ok |-> FALSE, family |-> "", baseUnit |-> "", quantity |-> 0,
          reason |-> [text |-> "Unsupported unit", a |-> unit, b |-> ""]]
    ELSE IF quantity < 0
    THEN [ok |-> FALSE, family |-> "", baseUnit |-> "", quantity |-> 0,
          reason |-> [text |-> "Invalid quantity", a |-> "", b |-> ""]]
    ELSE [ok |-> TRUE,
          family |-> UNIT_TO_BASE[unit].family,
          baseUnit |-> UNIT_TO_BASE[unit].baseUnit,
          quantity |-> quantity,
          reason |-> [text |-> "", a |-> "", b |-> ""]]

\* A quantity is a finite number >= 0 exactly when it is a natural number here;
\* a negative integer stands for every rejected quantity.
normalizeToBase(quantity, unit) ==
    IF unit \notin DOMAIN UNIT_TO_BASE
    THEN [ok |-> FALSE, family |-> "", baseUnit |-> "", quantity |-> 0,
          reason |-> [text |-> "Unsupported unit", a |-> unit, b |-> ""]]
    ELSE IF quantity < 0
    THEN [ok |-> FALSE, family |-> "", baseUnit |-> "", quantity |-> 0,
          reason |-> [text |-> "Invalid quantity", a |-> "", b |-> ""]]
    ELSE [ok |-> TRUE,
          family |-> UNIT_TO_BASE[unit].family,
          baseUnit |-> UNIT_TO_BASE[unit].baseUnit,
          quantity |-> quantity * UNIT_TO_BASE[unit].toBaseFactor,
          reason |-> [text |-> "", a |-> "", b |-> ""]]

\* An expiry date is [kind |-> "none"] (absent/empty), [kind |-> "invalid"]
\* (a string Date cannot parse) or [kind |-> "date", day |-> d]: the date-only
\* string of day d, which Date parses as UTC midnight, d * MS_PER_DAY.
NoExpiry == [kind |-> "none", day |-> 0]
InvalidExpiry == [kind |-> "invalid", day |-> 0]
ExpiryOn(d) == [kind |-> "date", day |-> d]

\* Mutant: the day count is truncated toward zero instead of floored.
computeDaysUntilExpiry_Truncated(expiryDateIso, nowMs) ==
    IF expiryDateIso.kind = "none" THEN POSITIVE_INFINITY
    ELSE IF expiryDateIso.kind = "invalid" THEN POSITIVE_INFINITY
    ELSE LET delta == (expiryDateIso.day * MS_PER_DAY) - nowMs
         IN  IF delta >= 0 THEN delta \div MS_PER_DAY ELSE -((-delta) \div MS_PER_DAY)

computeDaysUntilExpiry(expiryDateIso, nowMs) ==
    IF expiryDateIso.kind = "none" THEN POSITIVE_INFINITY
    ELSE IF expiryDateIso.kind = "invalid" THEN POSITIVE_INFINITY
    ELSE ((expiryDateIso.day * MS_PER_DAY) - nowMs) \div MS_PER_DAY

\* coverage.ratio is the rational matched/total, kept as numerator and
\* denominator; two ratios are compared by cross-multiplication.
RatioCompare(x, y) == Sign((x.num * y.den) - (y.num * x.den))

\* localeCompare on names and ids: names and ids are modelled by their
\* collation rank, so the comparison is the comparison of ranks.
localeCompare(x, y) == Sign(x - y)

\* Mutant: the final id tie-breaker is missing.
compareRecommendationRecords_NoIdTieBreak(a, b) ==
    LET aUrgency == a.rankingFactors.daysUntilMostUrgentExpiry
        bUrgency == b.rankingFactors.daysUntilMostUrgentExpiry
    IN  IF aUrgency # bUrgency THEN Sign(aUrgency - bUrgency)
        ELSE IF RatioCompare(b.coverage.ratio, a.coverage.ratio) # 0
        THEN RatioCompare(b.coverage.ratio, a.coverage.ratio)
        ELSE IF Len(a.shortages) # Len(b.shortages)
        THEN Sign(Len(a.shortages) - Len(b.shortages))
        ELSE localeCompare(a.recipe.name, b.recipe.name)

\* Mutant: coverage ratio compared ascending instead of descending.
compareRecommendationRecords_RatioAscending(a, b) ==
    LET aUrgency == a.rankingFactors.daysUntilMostUrgentExpiry
        bUrgency == b.rankingFactors.daysUntilMostUrgentExpiry
    IN  IF aUrgency # bUrgency THEN Sign(aUrgency - bUrgency)
        ELSE IF RatioCompare(a.coverage.ratio, b.coverage.ratio) # 0
        THEN RatioCompare(a.coverage.ratio, b.coverage.ratio)
        ELSE IF Len(a.shortages) # Len(b.shortages)
        THEN Sign(Len(a.shortages) - Len(b.shortages))
        ELSE IF localeCompare(a.recipe.name, b.recipe.name) # 0
        THEN localeCompare(a.recipe.name, b.recipe.name)
        ELSE localeCompare(a.recipe.id, b.recipe.id)

compareRecommendationRecords(a, b) ==
    LET aUrgency == a.rankingFactors.daysUntilMostUrgentExpiry
        bUrgency == b.rankingFactors.daysUntilMostUrgentExpiry
    IN  IF aUrgency # bUrgency THEN Sign(aUrgency - bUrgency)
        ELSE IF RatioCompare(b.coverage.ratio, a.coverage.ratio) # 0
        THEN RatioCompare(b.coverage.ratio, a.coverage.ratio)
        ELSE IF Len(a.shortages) # Len(b.shortages)
        THEN Sign(Len(a.shortages) - Len(b.shortages))
        ELSE IF localeCompare(a.recipe.name, b.recipe.name) # 0
        THEN localeCompare(a.recipe.name, b.recipe.name)
        ELSE localeCompare(a.recipe.id, b.recipe.id)

\* new Map(inventoryItems.map((item) => [item.id, item])) and Map.get:
\* the last item with the id wins; <<>> stands for undefined.
inventoryById(items, id) ==
    LET hits == {i \in 1..Len(items) : items[i].id = id}
    IN  IF hits = {} THEN <<>>
        ELSE <<items[CHOOSE i \in hits : \A j \in hits : j <= i]>>

\* Number((missingInBase / toBaseFactor).toFixed(6)), in millionths of the
\* ingredient unit: the whole part and the fraction rounded half up.
missingInUnitMicros(missingInBase, factor) ==
    LET whole == missingInBase \div factor
        rest  == missingInBase % factor
    IN  (whole * 1000000) + (((2 * rest * 1000000) + factor) \div (2 * factor))

\* One iteration of the loop over recipe.ingredients: acc carries shortages,
\* matchedIngredients and mostUrgentDays.
evaluateIngredient(acc, ingredient, items, nowMs) ==
    LET found == inventoryById(items, ingredient.inventoryItemId)
    IN  IF found = <<>>
        THEN [acc EXCEPT !.shortages = Append(@,
                [inventoryItemId |-> ingredient.inventoryItemId,
                 requiredQuantity |-> ingredient.quantity,
                 requiredUnit |-> ingredient.unit,
                 hasAvailable |-> FALSE,
                 availableQuantity |-> 0,
                 availableUnit |-> "",
                 missingQuantityMicros |-> ingredient.quantity * 1000000,
                 missingUnit |-> ingredient.unit,
                 reason |-> [text |-> "Inventory item is not available.", a |-> "", b |-> ""]])]
        ELSE
        LET inventoryItem == found[1]
            required  == normalizeToBase(ingredient.quantity, ingredient.unit)
            available == normalizeToBase(inventoryItem.quantity, inventoryItem.unit)
            shortage(missingMicros, reason) ==
                [inventoryItemId |-> ingredient.inventoryItemId,
                 requiredQuantity |-> ingredient.quantity,
                 requiredUnit |-> ingredient.unit,
                 hasAvailable |-> TRUE,
                 availableQuantity |-> inventoryItem.quantity,
                 availableUnit |-> inventoryItem.unit,
                 missingQuantityMicros |-> missingMicros,
                 missingUnit |-> ingredient.unit,
                 reason |-> reason]
        IN  IF ~required.ok \/ ~available.ok
            THEN [acc EXCEPT !.shortages = Append(@,
                    shortage(ingredient.quantity * 1000000,
                             IF ~required.ok THEN required.reason
                                             ELSE available.reason))]
            ELSE IF required.family # available.family
            THEN [acc EXCEPT !.shortages = Append(@,
                    shortage(ingredient.quantity * 1000000,
                             [text |-> "Unit family mismatch",
                              a |-> required.family, b |-> available.family]))]
            ELSE
            LET diff == required.quantity - available.quantity
                missingInBase == IF diff > 0 THEN diff ELSE 0
            IN  IF missingInBase > 0
                THEN [acc EXCEPT !.shortages = Append(@,
                        shortage(missingInUnitMicros(missingInBase,
                                    UNIT_TO_BASE[ingredient.unit].toBaseFactor),
                                 [text |-> "Insufficient quantity available after unit normalization.",
                                  a |-> "", b |-> ""]))]
                ELSE
                LET daysUntilExpiry ==
                        computeDaysUntilExpiry(inventoryItem.expiryDate, nowMs)
                IN  [acc EXCEPT !.matchedIngredients = @ + 1,
                                !.mostUrgentDays =
                                    IF daysUntilExpiry < @ THEN daysUntilExpiry ELSE @]

RECURSIVE evaluateIngredients(_, _, _, _)
evaluateIngredients(acc, ingredients, items, nowMs) ==
    IF ingredients = <<>> THEN acc
    ELSE evaluateIngredients(evaluateIngredient(acc, Head(ingredients), items, nowMs),
                             Tail(ingredients), items, nowMs)

isFullySatisfiable_OffByOne(shortages) == Len(shortages) <= 1

isFullySatisfiable(shortages) == Len(shortages) = 0

evaluateRecipeRecommendation(recipe, items, nowMs) ==
    LET acc == evaluateIngredients(
                   [shortages |-> <<>>, matchedIngredients |-> 0,
                    mostUrgentDays |-> POSITIVE_INFINITY],
                   recipe.ingredients, items, nowMs)
        totalIngredients == Len(recipe.ingredients)
        ratio == IF totalIngredients = 0
                 THEN [num |-> 0, den |-> 1]
                 ELSE [num |-> acc.matchedIngredients, den |-> totalIngredients]
    IN  [recipe |-> recipe,
         matchStatus |-> IF isFullySatisfiable(acc.shortages)
                         THEN MATCH_STATUS.FULLY_SATISFIABLE
                         ELSE MATCH_STATUS.PARTIALLY_SATISFIABLE,
         coverage |-> [matched |-> acc.matchedIngredients,
                       total |-> totalIngredients,
                       ratio |-> ratio],
         shortages |-> acc.shortages,
         rankingFactors |->
            [daysUntilMostUrgentExpiry |-> acc.mostUrgentDays,
             hasExpiringIngredientSignal |-> acc.mostUrgentDays # POSITIVE_INFINITY,
             coverageRatio |-> ratio,
             shortageCount |-> Len(acc.shortages)]]

\* Array.prototype.sort with a comparator: a stable sort.  Each element is
\* inserted after the last element of the sorted prefix that does not compare
\* greater than it.
RECURSIVE insertRecord(_, _)
insertRecord(sorted, x) ==
    IF sorted = <<>> THEN <<x>>
    ELSE IF compareRecommendationRecords(sorted[Len(sorted)], x) <= 0
    THEN Append(sorted, x)
    ELSE Append(insertRecord(SubSeq(sorted, 1, Len(sorted) - 1), x),
                sorted[Len(sorted)])

RECURSIVE sortRecords(_)
sortRecords(s) ==
    IF s = <<>> THEN <<>>
    ELSE insertRecord(sortRecords(SubSeq(s, 1, Len(s) - 1)), s[Len(s)])

\* allRanked.filter((entry) => entry.matchStatus === status)
RECURSIVE filterByMatchStatus(_, _)
filterByMatchStatus(entries, status) ==
    IF entries = <<>> THEN <<>>
    ELSE (IF Head(entries).matchStatus = status THEN <<Head(entries)>> ELSE <<>>)
         \o filterByMatchStatus(Tail(entries), status)

rankRecipeRecommendations(rs, items, nowMs) ==
    LET allRanked == sortRecords(
            [i \in 1..Len(rs) |-> evaluateRecipeRecommendation(rs[i], items, nowMs)])
    IN  [fullySatisfiable |-> filterByMatchStatus(allRanked, MATCH_STATUS.FULLY_SATISFIABLE),
         partiallySatisfiable |-> filterByMatchStatus(allRanked, MATCH_STATUS.PARTIALLY_SATISFIABLE),
         allRanked |-> allRanked]


----------------------------------------------------------------------------
(* Meal planner domain service: demand aggregation *)

\* Planner and shopping quantities are integers counting ticks;
\* FinePerMilli ticks make 0.001 and FinePerUnit ticks make 1.
FinePerMilli == 4

FinePerUnit == 1000 * FinePerMilli

\* Number(value.toFixed(3)) for value >= 0: the nearest multiple of 0.001,
\* the larger one when two are equally near.
roundPlannedQuantity(value) ==
    (((2 * value) + FinePerMilli) \div (2 * FinePerMilli)) * FinePerMilli

\* Mutant: a second entry on the same date is a duplicate whatever its slot.
duplicateSlot_DateOnly(entries, nextEntry) ==
    \E i \in 1..Len(entries) : entries[i].date = nextEntry.date

\* entries.some((entry) => entry.date === nextEntry.date && entry.slot === nextEntry.slot)
duplicateSlot(entries, nextEntry) ==
    \E i \in 1..Len(entries) :
        entries[i].date = nextEntry.date /\ entries[i].slot = nextEntry.slot

\* threw: the call raised an Error; value: the array it returned otherwise.
addMealPlanEntry(entries, nextEntry) ==
    IF duplicateSlot(entries, nextEntry)
    THEN [threw |-> TRUE, value |-> <<>>]
    ELSE [threw |-> FALSE, value |-> Append(entries, nextEntry)]

\* Mutant: the unit token is left out of the key.
createDemandAggregationKey_ItemOnly(ingredient) ==
    <<ingredient.inventoryItemId, "">>

\* `${ingredient.inventoryItemId}::${ingredient.unit}`: ids and unit tokens
\* hold no colon, so the string determines the pair and the pair stands for it.
createDemandAggregationKey(ingredient) ==
    <<ingredient.inventoryItemId, ingredient.unit>>

\* Mutant: an unknown recipe id falls back to the first recipe of the catalog.
recipeById_FallbackToFirst(catalog, id) ==
    LET hits == {i \in 1..Len(catalog) : catalog[i].id = id}
    IN  IF hits = {} THEN (IF catalog = <<>> THEN <<>> ELSE <<catalog[1]>>)
        ELSE <<catalog[CHOOSE i \in hits : \A j \in hits : j <= i]>>

\* new Map(recipes.map((recipe) => [recipe.id, recipe])) and Map.get: the
\* last recipe with the id wins; <<>> stands for undefined.
recipeById(catalog, id) ==
    LET hits == {i \in 1..Len(catalog) : catalog[i].id = id}
    IN  IF hits = {} THEN <<>>
        ELSE <<catalog[CHOOSE i \in hits : \A j \in hits : j <= i]>>

\* Mutant: every scaled contribution is rounded before it is added.
scaleQuantity_RoundedEach(quantity, portionMultiplier) ==
    roundPlannedQuantity((quantity * portionMultiplier.num) \div portionMultiplier.den)

\* ingredient.quantity * entry.portionMultiplier; the multiplier is the
\* rational num/den and the model's quantities are multiples of den.
scaleQuantity(quantity, portionMultiplier) ==
    (quantity * portionMultiplier.num) \div portionMultiplier.den

\* The body of recipe.ingredients.forEach: rows is demandByIngredient in
\* insertion order, each row carrying its key.
aggregateIngredient(rows, ingredient, entry) ==
    LET aggregationKey == createDemandAggregationKey(ingredient)
        scaledQuantity == scaleQuantity(ingredient.quantity, entry.portionMultiplier)
        withRow ==
            IF \E i \in 1..Len(rows) : rows[i].key = aggregationKey
            THEN rows
            ELSE Append(rows, [key |-> aggregationKey,
                               inventoryItemId |-> ingredient.inventoryItemId,
                               unit |-> ingredient.unit,
                               requiredQuantity |-> 0,
                               sourceMealPlanEntryIds |-> <<>>])
        at == CHOOSE i \in 1..Len(withRow) : withRow[i].key = aggregationKey
    IN  [withRow EXCEPT
            ![at].requiredQuantity = @ + scaledQuantity,
            ![at].sourceMealPlanEntryIds = Append(@, entry.id)]

RECURSIVE aggregateIngredients(_, _, _)
aggregateIngredients(rows, ingredients, entry) ==
    IF ingredients = <<>> THEN rows
    ELSE aggregateIngredients(aggregateIngredient(rows, Head(ingredients), entry),
                              Tail(ingredients), entry)

\* The body of mealPlanEntries.forEach.
aggregateEntry(rows, entry, catalog) ==
    LET recipe == recipeById(catalog, entry.recipeId)
    IN  IF recipe = <<>> THEN rows
        ELSE aggregateIngredients(rows, recipe[1].ingredients, entry)

RECURSIVE aggregateEntries(_, _, _)
aggregateEntries(rows, entries, catalog) ==
    IF entries = <<>> THEN rows
    ELSE aggregateEntries(aggregateEntry(rows, Head(entries), catalog),
                          Tail(entries), catalog)

aggregateIngredientDemand(mealPlanEntries, catalog) ==
    LET demandByIngredient == aggregateEntries(<<>>, mealPlanEntries, catalog)
    IN  [i \in 1..Len(demandByIngredient) |->
            [inventoryItemId |-> demandByIngredient[i].inventoryItemId,
             unit |-> demandByIngredient[i].unit,
             requiredQuantity |->
                 roundPlannedQuantity(demandByIngredient[i].requiredQuantity),
             sourceMealPlanEntryIds |-> demandByIngredient[i].sourceMealPlanEntryIds]]

----------------------------------------------------------------------------
(* Shopping domain service *)

computeMissingQuantity(requiredQuantity, availableQuantity) ==
    IF requiredQuantity - availableQuantity > 0
    THEN requiredQuantity - availableQuantity
    ELSE 0

STORE_SECTION_TAXONOMY ==
    [ produce |-> "produce", dairyAndFridge |-> "dairy-and-fridge",
      meatAndSeafood |-> "meat-and-seafood", bakery |-> "bakery",
      frozen |-> "frozen", pantry |-> "pantry", beverages |-> "beverages",
      household |-> "household", other |-> "other" ]

\* Mutant: units of one family (count and its aliases) count as comparable.
hasComparableUnit_SameFamily(inventoryItem, demand) ==
    /\ inventoryItem # <<>>
    /\ \/ inventoryItem[1].unit = demand.unit
       \/ /\ inventoryItem[1].unit \in DOMAIN UNIT_TO_BASE
          /\ demand.unit \in DOMAIN UNIT_TO_BASE
          /\ UNIT_TO_BASE[inventoryItem[1].unit].family = UNIT_TO_BASE[demand.unit].family

hasComparableUnit(inventoryItem, demand) ==
    inventoryItem # <<>> /\ inventoryItem[1].unit = demand.unit

CATEGORY_TO_STORE_SECTION ==
    [ fruit |-> STORE_SECTION_TAXONOMY.produce,
      vegetable |-> STORE_SECTION_TAXONOMY.produce,
      produce |-> STORE_SECTION_TAXONOMY.produce,
      dairy |-> STORE_SECTION_TAXONOMY.dairyAndFridge,
      fridge |-> STORE_SECTION_TAXONOMY.dairyAndFridge,
      meat |-> STORE_SECTION_TAXONOMY.meatAndSeafood,
      seafood |-> STORE_SECTION_TAXONOMY.meatAndSeafood,
      bakery |-> STORE_SECTION_TAXONOMY.bakery,
      frozen |-> STORE_SECTION_TAXONOMY.frozen,
      baking |-> STORE_SECTION_TAXONOMY.pantry,
      grain |-> STORE_SECTION_TAXONOMY.pantry,
      canned |-> STORE_SECTION_TAXONOMY.pantry,
      spice |-> STORE_SECTION_TAXONOMY.pantry,
      oil |-> STORE_SECTION_TAXONOMY.pantry,
      beverage |-> STORE_SECTION_TAXONOMY.beverages,
      drinks |-> STORE_SECTION_TAXONOMY.beverages,
      cleaning |-> STORE_SECTION_TAXONOMY.household ]

roundShoppingQuantity(value) ==
    (((2 * value) + FinePerMilli) \div (2 * FinePerMilli)) * FinePerMilli

\* String.prototype.toLowerCase on the category tokens the model draws from.
toLowerCase(text) ==
    CASE text = "Bakery" -> "bakery"
      [] text = "CANNED" -> "canned"
      [] OTHER -> text

\* inventoryItem?.category?.toLowerCase?.() || '' looked up in the table;
\* an item without a category carries category "".
resolveStoreSection(inventoryItem) ==
    LET normalizedCategory ==
            IF inventoryItem = <<>> THEN "" ELSE toLowerCase(inventoryItem[1].category)
    IN  IF normalizedCategory \in DOMAIN CATEGORY_TO_STORE_SECTION
        THEN CATEGORY_TO_STORE_SECTION[normalizedCategory]
        ELSE STORE_SECTION_TAXONOMY.other

\* validation/constraints.js: the canonical built-in units by family.
UNIT_FAMILIES ==
    [ mass   |-> {"g", "kg", "oz", "lb"},
      volume |-> {"ml", "l", "tsp", "tbsp", "cup"},
      count  |-> {"count"} ]

\* validateUnit(unit).isValid with the default registry
validateUnit(unit) == \E family \in DOMAIN UNIT_FAMILIES : unit \in UNIT_FAMILIES[family]

\* The characters of the strings that are put together or matched against a
\* pattern: a string is the sequence of its characters.
Chars(text) ==
    CASE text = "shop_" -> <<"s", "h", "o", "p", "_">>
      [] text = "_" -> <<"_">>
      [] text = "item_a_001" -> <<"i", "t", "e", "m", "_", "a", "_", "0", "0", "1">>
      [] text = "item_b_001" -> <<"i", "t", "e", "m", "_", "b", "_", "0", "0", "1">>
      [] text = "count" -> <<"c", "o", "u", "n", "t">>
      [] text = "l" -> <<"l">>

LowerCaseLetters ==
    {"a", "b", "c", "d", "e", "f", "g", "h", "i", "j", "k", "l", "m", "n", "o", "p", "q",
     "r", "s", "t", "u", "v", "w", "x", "y", "z"}

Digits == {"0", "1", "2", "3", "4", "5", "6", "7", "8", "9"}

\* ID_PATTERN.test(id) for /^[a-z]+_[a-z0-9_]+_[0-9]{3,}$/ on the characters
\* of id: the first and the last underscore of a match are at i and j.
ID_PATTERN(id) ==
    \E i, j \in 1..Len(id) :
        /\ 1 < i /\ i + 1 < j /\ j + 3 <= Len(id)
        /\ id[i] = "_" /\ id[j] = "_"
        /\ \A k \in 1..(i - 1) : id[k] \in LowerCaseLetters
        /\ \A k \in (i + 1)..(j - 1) : id[k] \in LowerCaseLetters \cup Digits \cup {"_"}
        /\ \A k \in (j + 1)..Len(id) : id[k] \in Digits

\* validateShoppingItem: the names of the checks that fail (isValid is that
\* there are none); quantities are numbers in the model, units are strings.
validateShoppingItem(item) ==
    (IF ID_PATTERN(item.id) THEN {} ELSE {"id"})
    \cup (IF item.requiredQuantity > 0 THEN {} ELSE {"requiredQuantity"})
    \cup (IF item.availableQuantity >= 0 THEN {} ELSE {"availableQuantity"})
    \cup (IF item.missingQuantity >= 0 THEN {} ELSE {"missingQuantity"})
    \cup (IF validateUnit(item.unit) THEN {} ELSE {"unit"})
    \cup (IF ID_PATTERN(Chars(item.inventoryItemId)) THEN {} ELSE {"inventoryItemId"})

\* Mutant: the missing quantity is derived from the unrounded amounts.
shoppingQuantities_MissingFromRaw(rawRequired, availableQuantity) ==
    [requiredQuantity |-> roundShoppingQuantity(rawRequired),
     roundedAvailable |-> roundShoppingQuantity(availableQuantity),
     missingQuantity |-> roundShoppingQuantity(
                             computeMissingQuantity(rawRequired, availableQuantity))]

\* requiredQuantity, roundedAvailable and missingQuantity of one demand row.
shoppingQuantities(rawRequired, availableQuantity) ==
    LET requiredQuantity == roundShoppingQuantity(rawRequired)
        roundedAvailable == roundShoppingQuantity(availableQuantity)
    IN  [requiredQuantity |-> requiredQuantity,
         roundedAvailable |-> roundedAvailable,
         missingQuantity |-> roundShoppingQuantity(
                                 computeMissingQuantity(requiredQuantity, roundedAvailable))]

\* The .map callback of generateShoppingItems.
shoppingItemFor(demand, items) ==
    LET inventoryItem == inventoryById(items, demand.inventoryItemId)
        availableQuantity == IF hasComparableUnit(inventoryItem, demand)
                             THEN inventoryItem[1].quantity
                             ELSE 0
        q == shoppingQuantities(demand.requiredQuantity, availableQuantity)
        requiredQuantity == q.requiredQuantity
        roundedAvailable == q.roundedAvailable
        missingQuantity == q.missingQuantity
    IN  [id |-> Chars("shop_") \o Chars(demand.inventoryItemId) \o Chars("_")
                    \o Chars(demand.unit),
         ingredientName |-> IF inventoryItem # <<>> THEN inventoryItem[1].name
                            ELSE demand.inventoryItemId,
         inventoryItemId |-> demand.inventoryItemId,
         requiredQuantity |-> requiredQuantity,
         availableQuantity |-> roundedAvailable,
         missingQuantity |-> missingQuantity,
         unit |-> demand.unit,
         storeSection |-> resolveStoreSection(inventoryItem),
         sourceMealPlanEntryIds |-> demand.sourceMealPlanEntryIds]

\* Mutant: the filter keeps rows with nothing missing.
keepsShoppingItem_NonNegative(item) == item.missingQuantity >= 0

keepsShoppingItem(item) == item.missingQuantity > 0

\* .filter((item) => item.missingQuantity > 0)
RECURSIVE filterShoppingItems(_)
filterShoppingItems(items) ==
    IF items = <<>> THEN <<>>
    ELSE (IF keepsShoppingItem(Head(items)) THEN <<Head(items)>> ELSE <<>>)
         \o filterShoppingItems(Tail(items))

generateShoppingItems(ingredientDemand, items) ==
    filterShoppingItems(
        [i \in 1..Len(ingredientDemand) |-> shoppingItemFor(ingredientDemand[i], items)])


----------------------------------------------------------------------------
(* Sync envelope resolver *)

DEFAULT_DRIFT_TOLERANCE_MS == 120000

\* exportedAtUtc is [kind |-> "iso", ms |-> t], the ISO-8601 UTC string of
\* instant t, [kind |-> "malformed", ms |-> 0], a string Date.parse rejects,
\* or [kind |-> "undefined", ms |-> 0], the field being absent.
\* Date.parse returns [finite |-> TRUE, ms |-> t] or NaN, [finite |-> FALSE].

\* Mutant: a timestamp that does not parse counts as the epoch.
DateParse_EpochFallback(text) == [finite |-> TRUE, ms |-> text.ms]

DateParse(text) ==
    IF text.kind = "iso" THEN [finite |-> TRUE, ms |-> text.ms]
    ELSE [finite |-> FALSE, ms |-> 0]

Abs(x) == IF x < 0 THEN -x ELSE x

\* Mutant: a delta equal to the tolerance is outside it.
withinDriftTolerance_Strict(deltaMs, driftToleranceMs) ==
    Abs(deltaMs) < driftToleranceMs

withinDriftTolerance(deltaMs, driftToleranceMs) ==
    Abs(deltaMs) <= driftToleranceMs

compareSyncEnvelopes(localEnv, remoteEnv, options) ==
    LET driftToleranceMs == IF options.driftToleranceMs # <<>>
                            THEN options.driftToleranceMs[1]
                            ELSE DEFAULT_DRIFT_TOLERANCE_MS
    IN  IF localEnv = <<>> /\ remoteEnv = <<>>
        THEN [winner |-> "none", reason |-> "Both sync envelopes are absent."]
        ELSE IF localEnv # <<>> /\ remoteEnv = <<>>
        THEN [winner |-> "local", reason |-> "Remote snapshot not found."]
        ELSE IF localEnv = <<>> /\ remoteEnv # <<>>
        THEN [winner |-> "remote", reason |-> "Local snapshot not found."]
        ELSE
        LET localMs == DateParse(localEnv[1].exportedAtUtc)
            remoteMs == DateParse(remoteEnv[1].exportedAtUtc)
        IN  IF ~localMs.finite \/ ~remoteMs.finite
            THEN [winner |-> "local",
                  reason |-> "Malformed timestamp detected; local snapshot retained for safety."]
            ELSE
            LET deltaMs == remoteMs.ms - localMs.ms
            IN  IF withinDriftTolerance(deltaMs, driftToleranceMs)
                THEN [winner |-> "local",
                      reason |-> "Snapshots are within clock drift tolerance; local state wins deterministic tie-breaker."]
                ELSE IF deltaMs > 0
                THEN [winner |-> "remote",
                      reason |-> "Remote snapshot is newer than local snapshot."]
                ELSE [winner |-> "local",
                      reason |-> "Local snapshot is newer than remote snapshot."]

\* envelope?.state || null: a state is <<name>>, an object, or <<>>, null.
stateOrNull(envelope) ==
    IF envelope = <<>> THEN <<>>
    ELSE IF envelope[1].state = <<>> THEN <<>>
    ELSE envelope[1].state

\* Mutant: the local state is returned whichever side wins.
resolveSyncConflict_AlwaysLocalState(localEnv, remoteEnv, options) ==
    LET d == compareSyncEnvelopes(localEnv, remoteEnv, options)
    IN  [state |-> stateOrNull(localEnv), source |-> d.winner, reason |-> d.reason]

resolveSyncConflict(localEnv, remoteEnv, options) ==
    LET d == compareSyncEnvelopes(localEnv, remoteEnv, options)
    IN  IF d.winner = "local"
        THEN [state |-> stateOrNull(localEnv), source |-> "local", reason |-> d.reason]
        ELSE IF d.winner = "remote"
        THEN [state |-> stateOrNull(remoteEnv), source |-> "remote", reason |-> d.reason]
        ELSE [state |-> <<>>, source |-> "none", reason |-> d.reason]

----------------------------------------------------------------------------
(* Sync envelope migration *)

SYNC_SCHEMA_VERSION == 1

\* A JSON value is [t |-> its typeof (with "null" and "undefined" apart),
\* v |-> its spelling]; an absent property reads as Undefined.
Undefined == [t |-> "undefined", v |-> ""]

Null == [t |-> "null", v |-> ""]

Str(text) == [t |-> "string", v |-> text]

Num(text) == [t |-> "number", v |-> text]

Obj(name) == [t |-> "object", v |-> name]

\* ToBoolean
Truthy(x) ==
    ~ \/ x.t \in {"undefined", "null"}
      \/ x.t = "string" /\ x.v = ""
      \/ x.t = "number" /\ x.v = "0"

\* a || b
Or(a, b) == IF Truthy(a) THEN a ELSE b

\* String(x)
StringOf(x) ==
    Str(IF x.t = "object" THEN "[object Object]"
        ELSE IF x.t \in {"undefined", "null"} THEN x.t
        ELSE x.v)

\* Number(x) || 0, on the spellings the payloads use: NaN and 0 both give 0.
NumberOrZero(x) ==
    IF x.t \in {"number", "string"}
    THEN CASE x.v = "-1" -> -1
           [] x.v = "1" -> 1
           [] x.v = "2" -> 2
           [] OTHER -> 0
    ELSE 0

\* A payload is a JSON value; an object payload also carries its properties.
Payload(value, schemaVersion, exportedAtUtc, exportedAt, deviceId, source, state) ==
    [t |-> value.t, v |-> value.v, schemaVersion |-> schemaVersion,
     exportedAtUtc |-> exportedAtUtc, exportedAt |-> exportedAt,
     deviceId |-> deviceId, source |-> source, state |-> state]

Primitive(value) ==
    Payload(value, Undefined, Undefined, Undefined, Undefined, Undefined, Undefined)

\* createSyncEnvelope(state, options) with options.now absent: the clock is read.
createSyncEnvelope(state, options, nowIso) ==
    Payload(Obj("envelope"), Num("1"), Str(nowIso), Undefined,
            Or(options.deviceId, Str("unknown-device")),
            Or(options.source, Str("pantrymanager-web")), state)

\* typeof x === 'object' && x !== null ? x : {}
objectOrEmpty(x) == IF x.t = "object" THEN x ELSE Obj("{}")

\* Mutant: only a newer version passes through.
isCurrentOrNewer_NewerOnly(schemaVersion) == schemaVersion > SYNC_SCHEMA_VERSION

isCurrentOrNewer(schemaVersion) == schemaVersion >= SYNC_SCHEMA_VERSION

\* Mutant: a missing deviceId or source is left missing.
defaulted_Kept(value, fallback) == value

\* String(value || fallback)
defaulted(value, fallback) == StringOf(Or(value, fallback))

migrateSyncEnvelope(envelope, nowIso) ==
    IF ~Truthy(envelope) \/ envelope.t # "object"
    THEN createSyncEnvelope(Obj("{}"),
                            [deviceId |-> Undefined, source |-> Str("migration-fallback")],
                            nowIso)
    ELSE
    LET schemaVersion == NumberOrZero(envelope.schemaVersion)
    IN  IF isCurrentOrNewer(schemaVersion) THEN envelope
        ELSE IF schemaVersion = 0
        THEN Payload(Obj("envelope"), Num("1"),
                     StringOf(Or(envelope.exportedAtUtc,
                                 Or(envelope.exportedAt, Str(nowIso)))),
                     Undefined,
                     defaulted(envelope.deviceId, Str("unknown-device")),
                     defaulted(envelope.source, Str("pantrymanager-web")),
                     objectOrEmpty(envelope.state))
        ELSE Payload(Obj("envelope"), Num("1"),
                     StringOf(Or(envelope.exportedAtUtc, Str(nowIso))),
                     Undefined,
                     defaulted(envelope.deviceId, Str("unknown-device")),
                     defaulted(envelope.source, Str("pantrymanager-web")),
                     objectOrEmpty(envelope.state))


----------------------------------------------------------------------------
(* Retention policy engine *)

\* Instants are counted in ticks since 1970-01-01T00:00:00.000Z, TicksPerDay
\* ticks to the day; a tick stands for DAY_MS / TicksPerDay milliseconds.
TicksPerDay == 2

DAY_MS == TicksPerDay

DEFAULT_RETENTION_DAYS == 30

\* A date field is [kind |-> "absent"] (undefined, null or ''), "iso" (a full
\* ISO-8601 UTC timestamp), "date" (YYYY-MM-DD, UTC midnight of that day) or
\* "malformed" (a string Date.parse rejects); ms is its instant in ticks.
AbsentDate == [kind |-> "absent", ms |-> 0]

MalformedDate == [kind |-> "malformed", ms |-> 0]

IsoDate(ticks) == [kind |-> "iso", ms |-> ticks]

DateOnly(day) == [kind |-> "date", ms |-> day * TicksPerDay]

\* Mutant: a string Date.parse rejects counts as the epoch.
parseUtcMs_MalformedAsEpoch(raw) ==
    IF raw.kind = "absent" THEN <<>> ELSE <<raw.ms>>

\* number | null: <<ms>> or <<>>
parseUtcMs(raw) ==
    IF raw.kind = "absent" THEN <<>>
    ELSE IF raw.kind \in {"iso", "date"} THEN <<raw.ms>>
    ELSE <<>>

\* Mutant: the later of the two when both are there.
Coalesce_Later(a, b) ==
    IF a = <<>> THEN b
    ELSE IF b = <<>> THEN a
    ELSE IF b[1] > a[1] THEN b ELSE a

\* a ?? b
Coalesce(a, b) == IF a = <<>> THEN b ELSE a

\* Mutant: the threshold itself is not yet reached.
reachedThreshold_Exclusive(nowMs, thenMs, thresholdMs) == nowMs - thenMs > thresholdMs

reachedThreshold(nowMs, thenMs, thresholdMs) == nowMs - thenMs >= thresholdMs

\* Mutant: an archived record is looked at again.
shouldArchiveRecord_IgnoresArchivedAt(record, nowMs, archiveAfterMs) ==
    LET updatedAtMs == Coalesce(parseUtcMs(record.updatedAt), parseUtcMs(record.createdAt))
    IN  IF updatedAtMs = <<>> THEN FALSE
        ELSE reachedThreshold(nowMs, updatedAtMs[1], archiveAfterMs)

shouldArchiveRecord(record, nowMs, archiveAfterMs) ==
    IF record.archivedAt.kind # "absent" THEN FALSE
    ELSE
    LET updatedAtMs == Coalesce(parseUtcMs(record.updatedAt), parseUtcMs(record.createdAt))
    IN  IF updatedAtMs = <<>> THEN FALSE
        ELSE reachedThreshold(nowMs, updatedAtMs[1], archiveAfterMs)

\* Mutant: an archived record is never deleted.
shouldDeleteArchivedRecord_Never(record, nowMs, deleteAfterArchiveMs) == FALSE

shouldDeleteArchivedRecord(record, nowMs, deleteAfterArchiveMs) ==
    LET archivedAtMs == parseUtcMs(record.archivedAt)
    IN  IF archivedAtMs = <<>> THEN FALSE
        ELSE reachedThreshold(nowMs, archivedAtMs[1], deleteAfterArchiveMs)

\* options.x || 30: <<>> is an absent option
daysOrDefault(days) ==
    IF days = <<>> THEN DEFAULT_RETENTION_DAYS
    ELSE IF days[1] = 0 THEN DEFAULT_RETENTION_DAYS
    ELSE days[1]

\* Mutant: a deleted record is also kept among the archived ones.
retainRecord_DeletedStaysArchived(acc, record, nowMs, archiveAfterMs, deleteAfterArchiveMs) ==
    IF shouldDeleteArchivedRecord(record, nowMs, deleteAfterArchiveMs)
    THEN [acc EXCEPT !.deleted = Append(@, record), !.archived = Append(@, record)]
    ELSE IF shouldArchiveRecord(record, nowMs, archiveAfterMs)
    THEN [acc EXCEPT !.archived = Append(@, [record EXCEPT !.archivedAt = IsoDate(nowMs)])]
    ELSE IF record.archivedAt.kind # "absent"
    THEN [acc EXCEPT !.archived = Append(@, record)]
    ELSE [acc EXCEPT !.active = Append(@, record)]

\* One turn of the loop over the records.
retainRecord(acc, record, nowMs, archiveAfterMs, deleteAfterArchiveMs) ==
    IF shouldDeleteArchivedRecord(record, nowMs, deleteAfterArchiveMs)
    THEN [acc EXCEPT !.deleted = Append(@, record)]
    ELSE IF shouldArchiveRecord(record, nowMs, archiveAfterMs)
    THEN [acc EXCEPT !.archived = Append(@, [record EXCEPT !.archivedAt = IsoDate(nowMs)])]
    ELSE IF record.archivedAt.kind # "absent"
    THEN [acc EXCEPT !.archived = Append(@, record)]
    ELSE [acc EXCEPT !.active = Append(@, record)]

RECURSIVE retainRecords(_, _, _, _, _)
retainRecords(acc, records, nowMs, archiveAfterMs, deleteAfterArchiveMs) ==
    IF records = <<>> THEN acc
    ELSE retainRecords(retainRecord(acc, Head(records), nowMs, archiveAfterMs,
                                    deleteAfterArchiveMs),
                       Tail(records), nowMs, archiveAfterMs, deleteAfterArchiveMs)

applyGeneralRetention(records, options) ==
    LET nowMs == options.now
        archiveAfterMs == daysOrDefault(options.archiveAfterDays) * DAY_MS
        deleteAfterArchiveMs == daysOrDefault(options.deleteAfterArchiveDays) * DAY_MS
    IN  retainRecords([active |-> <<>>, archived |-> <<>>, deleted |-> <<>>],
                      records, nowMs, archiveAfterMs, deleteAfterArchiveMs)


DEFAULT_RETAIN_MONTHS == 12

\* Days since 1970-01-01 of the proleptic Gregorian date year-month-day, for
\* month in 1..12; following MakeDay, day may exceed the month's length.
DaysFromCivil(year, month, day) ==
    LET y == IF month <= 2 THEN year - 1 ELSE year
        era == y \div 400
        yoe == y - era * 400
        mp == IF month > 2 THEN month - 3 ELSE month + 9
        doy == (153 * mp + 2) \div 5 + day - 1
        doe == yoe * 365 + yoe \div 4 - yoe \div 100 + doy
    IN  era * 146097 + doe - 719468

\* The date [year, month, day] of a day number (getUTCFullYear and friends).
CivilFromDays(days) ==
    LET z == days + 719468
        era == z \div 146097
        doe == z - era * 146097
        yoe == (doe - doe \div 1460 + doe \div 36524 - doe \div 146096) \div 365
        doy == doe - (365 * yoe + yoe \div 4 - yoe \div 100)
        mp == (5 * doy + 2) \div 153
        d == doy - (153 * mp + 2) \div 5 + 1
        m == IF mp < 10 THEN mp + 3 ELSE mp - 9
    IN  [year |-> yoe + era * 400 + (IF m <= 2 THEN 1 ELSE 0), month |-> m, day |-> d]

\* Mutant: a month is taken to be 30 days.
subtractUtcMonths_FixedDays(nowMs, retainMonths) ==
    nowMs - retainMonths * 30 * TicksPerDay

\* retentionThreshold.setUTCMonth(retentionThreshold.getUTCMonth() - retainMonths)
subtractUtcMonths(nowMs, retainMonths) ==
    LET date == CivilFromDays(nowMs \div TicksPerDay)
        timeInDay == nowMs % TicksPerDay
        monthIndex == (date.month - 1) - retainMonths
        year == date.year + (monthIndex \div 12)
        month == (monthIndex % 12) + 1
    IN  (DaysFromCivil(year, month, 1) + date.day - 1) * TicksPerDay + timeInDay

\* options.retainMonths || 12
monthsOrDefault(months) ==
    IF months = <<>> THEN DEFAULT_RETAIN_MONTHS
    ELSE IF months[1] = 0 THEN DEFAULT_RETAIN_MONTHS
    ELSE months[1]

retainPoint(acc, point, retentionThresholdMs) ==
    LET effectiveMs == Coalesce(parseUtcMs(point.recordedAt), parseUtcMs(point.createdAt))
    IN  IF effectiveMs = <<>>
        THEN [acc EXCEPT !.retained = Append(@, point)]
        ELSE IF effectiveMs[1] < retentionThresholdMs
        THEN [acc EXCEPT !.deleted = Append(@, point)]
        ELSE [acc EXCEPT !.retained = Append(@, point)]

RECURSIVE retainPoints(_, _, _)
retainPoints(acc, points, retentionThresholdMs) ==
    IF points = <<>> THEN acc
    ELSE retainPoints(retainPoint(acc, Head(points), retentionThresholdMs),
                      Tail(points), retentionThresholdMs)

applyPricingRetention(pricingHistory, options) ==
    LET retainMonths == monthsOrDefault(options.retainMonths)
        retentionThresholdMs == subtractUtcMonths(options.now, retainMonths)
    IN  retainPoints([retained |-> <<>>, deleted |-> <<>>], pricingHistory,
                     retentionThresholdMs)

\* state.x || []: a collection is <<>> (missing) or <<array>>
orEmpty(collection) == IF collection = <<>> THEN <<>> ELSE collection[1]

\* runRetentionJobs passes its options, which carry now only, to every policy.
runRetentionJobs(state, options) ==
    LET general == [now |-> options.now, archiveAfterDays |-> <<>>,
                    deleteAfterArchiveDays |-> <<>>]
        inventory == applyGeneralRetention(orEmpty(state.inventory), general)
        recipeSet == applyGeneralRetention(orEmpty(state.recipes), general)
        mealPlans == applyGeneralRetention(orEmpty(state.mealPlans), general)
        shoppingLists == applyGeneralRetention(orEmpty(state.shoppingLists), general)
        pricing == applyPricingRetention(orEmpty(state.pricingHistory),
                                         [now |-> options.now, retainMonths |-> <<>>])
    IN  [state |->
            [state EXCEPT !.inventory = <<inventory.active>>,
                          !.archivedInventory = <<inventory.archived>>,
                          !.recipes = <<recipeSet.active>>,
                          !.archivedRecipes = <<recipeSet.archived>>,
                          !.mealPlans = <<mealPlans.active>>,
                          !.archivedMealPlans = <<mealPlans.archived>>,
                          !.shoppingLists = <<shoppingLists.active>>,
                          !.archivedShoppingLists = <<shoppingLists.archived>>,
                          !.pricingHistory = <<pricing.retained>>],
         report |->
            [inventoryDeleted |-> Len(inventory.deleted),
             recipeDeleted |-> Len(recipeSet.deleted),
             mealPlanDeleted |-> Len(mealPlans.deleted),
             shoppingListDeleted |-> Len(shoppingLists.deleted),
             pricingDeleted |-> Len(pricing.deleted)]]

\* A state holding no collection at all.
EmptyAppState ==
    [inventory |-> <<>>, archivedInventory |-> <<>>, recipes |-> <<>>,
     archivedRecipes |-> <<>>, mealPlans |-> <<>>, archivedMealPlans |-> <<>>,
     shoppingLists |-> <<>>, archivedShoppingLists |-> <<>>, pricingHistory |-> <<>>]


----------------------------------------------------------------------------
(* Recommendations: inputs and actions *)

MaxIngredients == 2
MaxRecipes == 2

HalfDayMs == MS_PER_DAY \div 2

\* Evaluator inputs: one recipe over ingredients that exercise every branch
\* (missing item, unsupported unit, legacy count alias, invalid quantity,
\* family mismatch, insufficient quantity, match) against an inventory of up
\* to two items.
EvalIngredients ==
    [inventoryItemId : {"item_a", "item_b"}, quantity : {-1, 2},
     unit : {"g", "kg", "count", "pcs", "bag"}]

EvalRecipes ==
    [id : {1}, name : {1}, ingredients : SeqsUpTo(EvalIngredients, MaxIngredients)]

EvalInventories ==
    LET itemA == [id : {"item_a"}, quantity : {1, 2500}, unit : {"g", "kg"},
                  expiryDate : {NoExpiry, ExpiryOn(1)}]
        itemB == [id : {"item_b"}, quantity : {3}, unit : {"count", "box"},
                  expiryDate : {InvalidExpiry, ExpiryOn(0)}]
    IN  {<<a>> : a \in itemA} \cup {<<a, b>> : a \in itemA, b \in itemB}

\* Ranker inputs: up to MaxRecipes recipes, in any order, with ids and names
\* that may coincide, over an inventory whose items may be absent or carry
\* different expiry dates.
RankIngredients ==
    [inventoryItemId : {"item_a", "item_b"}, quantity : {1}, unit : {"count"}]

\* Recipes of no, one or two ingredient lines; two lines name two items.
RankIngredientLists ==
    {<<>>} \cup {<<a>> : a \in RankIngredients}
           \cup {pair \in RankIngredients \X RankIngredients : pair[1] # pair[2]}

RankRecipes ==
    [id : 1..2, name : 1..2, ingredients : RankIngredientLists]

RankInventories ==
    LET itemA == [id : {"item_a"}, quantity : {1}, unit : {"count"},
                  expiryDate : {NoExpiry, ExpiryOn(1)}]
        itemB == [id : {"item_b"}, quantity : {1}, unit : {"count"},
                  expiryDate : {ExpiryOn(1), ExpiryOn(2)}]
    IN  {a \o b : a \in {<<>>} \cup {<<x>> : x \in itemA},
                  b \in {<<>>} \cup {<<x>> : x \in itemB}}

IdleRec ==
    /\ recipes = <<>>
    /\ now = 0
    /\ evaluation = <<>>
    /\ recommendations = <<>>

IdlePlan ==
    /\ planEntries = <<>>
    /\ recipeCatalog = <<>>
    /\ demandRows = <<>>

IdleShop ==
    /\ shopDemand = <<>>
    /\ shoppingItems = <<>>

IdleSync ==
    /\ localEnvelope = <<>>
    /\ remoteEnvelope = <<>>
    /\ syncOptions = [driftToleranceMs |-> <<>>]
    /\ decision = <<>>
    /\ resolution = <<>>

IdleMigrate ==
    /\ rawEnvelope = Primitive(Null)
    /\ clockIso = ""
    /\ migrated = <<>>
    /\ remigrated = <<>>

IdleRetention ==
    /\ retentionRecords = <<>>
    /\ retentionOptions = [now |-> 0, archiveAfterDays |-> <<>>,
                           deleteAfterArchiveDays |-> <<>>]
    /\ retentionResult = <<>>

IdleJobs ==
    /\ appState = EmptyAppState
    /\ jobNow = 0
    /\ jobReport = <<>>
    /\ jobRuns = 0

IdlePricing ==
    /\ pricePoints = <<>>
    /\ pricingOptions = [now |-> 0, retainMonths |-> <<>>]
    /\ pricingResult = <<>>

IdleMealPlan ==
    /\ rollingEntries = <<>>
    /\ plannedEntry = <<>>
    /\ addThrew = FALSE
    /\ addCalls = 0

IdleLookup ==
    /\ lookupPc = <<>>
    /\ lookupBarcode = <<>>
    /\ lookupAttempt = <<>>
    /\ adapterCalls = <<>>
    /\ providerResults = <<>>
    /\ lookupFeedback = <<>>

IdleExport ==
    /\ exportPc = "idle"
    /\ accessToken = ""
    /\ exportClock = 0
    /\ localChangedAt = 0
    /\ currentState = <<>>
    /\ storedState = <<>>
    /\ driveFile = <<>>
    /\ syncStatus = ""

IdleLate == IdlePricing /\ IdleMealPlan /\ IdleLookup /\ IdleExport

IdleOther == IdleMigrate /\ IdleRetention /\ IdleJobs /\ IdleLate

InitEval ==
    /\ recipes \in {<<r>> : r \in EvalRecipes}
    /\ inventoryItems \in EvalInventories
    /\ now \in {0, HalfDayMs}
    /\ evaluation = <<>>
    /\ recommendations = <<>>
    /\ IdlePlan /\ IdleShop /\ IdleSync /\ IdleOther

InitRank ==
    /\ recipes \in SeqsUpTo(RankRecipes, MaxRecipes)
    /\ inventoryItems \in RankInventories
    /\ now = 0
    /\ evaluation = <<>>
    /\ recommendations = <<>>
    /\ IdlePlan /\ IdleShop /\ IdleSync /\ IdleOther

\* A caller evaluates one of the recipes against the inventory lookup.
EvaluateRecipe ==
    /\ evaluation = <<>>
    /\ \E i \in 1..Len(recipes) :
          evaluation' = <<evaluateRecipeRecommendation(recipes[i], inventoryItems, now)>>
    /\ UNCHANGED <<recipes, inventoryItems, now, recommendations>>
    /\ UNCHANGED <<planVars, shopVars, syncVars, otherVars>>

\* A caller ranks the whole recipe list.
RankRecipeList ==
    /\ recommendations = <<>>
    /\ recommendations' = <<rankRecipeRecommendations(recipes, inventoryItems, now)>>
    /\ UNCHANGED <<recipes, inventoryItems, now, evaluation>>
    /\ UNCHANGED <<planVars, shopVars, syncVars, otherVars>>

SpecEval == InitEval /\ [][EvaluateRecipe]_vars

SpecRank == InitRank /\ [][RankRecipeList]_vars

----------------------------------------------------------------------------
(* Recommendations: properties *)

\* C1: evaluateRecipeRecommendation returns matchStatus fully_satisfiable if
\* and only if the returned shortages list is empty, and partially_satisfiable
\* otherwise; a recipe with zero ingredients is fully satisfiable with
\* coverage ratio 0.
C1_FullyIffNoShortages ==
    \A k \in 1..Len(evaluation) :
        LET e == evaluation[k]
        IN  /\ (e.matchStatus = "fully_satisfiable") <=> (Len(e.shortages) = 0)
            /\ (e.matchStatus = "partially_satisfiable") <=> (Len(e.shortages) > 0)
            /\ Len(e.recipe.ingredients) = 0 =>
                    /\ e.matchStatus = "fully_satisfiable"
                    /\ e.coverage.ratio.num = 0

\* C1 witness: an evaluated recipe with ingredients, one matched and one short.
C1_Witness ==
    /\ evaluation # <<>>
    /\ evaluation[1].coverage.matched = 1
    /\ Len(evaluation[1].shortages) = 1
    /\ evaluation[1].matchStatus = "partially_satisfiable"

RecipeIds(entries) == [i \in 1..Len(entries) |-> entries[i].recipe.id]

\* C2: for a fixed inventory and now, every permutation of the recipe list
\* yields the same sequence of recipe ids in allRanked, fullySatisfiable and
\* partiallySatisfiable.
C2_RankingIndependentOfInputOrder ==
    \A k \in 1..Len(recommendations) :
        \A p \in Perms(Len(recipes)) :
            LET other == rankRecipeRecommendations(Permuted(recipes, p),
                                                   inventoryItems, now)
                mine == recommendations[k]
            IN  /\ RecipeIds(other.allRanked) = RecipeIds(mine.allRanked)
                /\ RecipeIds(other.fullySatisfiable) = RecipeIds(mine.fullySatisfiable)
                /\ RecipeIds(other.partiallySatisfiable)
                        = RecipeIds(mine.partiallySatisfiable)

\* C2 witness: two recipes equal in every ranking key but the id, given in
\* descending id order, are returned in ascending id order.
C2_Witness ==
    /\ recommendations # <<>>
    /\ Len(recipes) = 2
    /\ recipes[1].id > recipes[2].id
    /\ recipes[1].name = recipes[2].name
    /\ recipes[1].ingredients = recipes[2].ingredients
    /\ RecipeIds(recommendations[1].allRanked) = <<recipes[2].id, recipes[1].id>>

\* The sequential key of C3, written out on the fields of two records:
\* a is less than or equal to b.
KeyLeq(a, b) ==
    LET ua == a.rankingFactors.daysUntilMostUrgentExpiry
        ub == b.rankingFactors.daysUntilMostUrgentExpiry
        ra == a.coverage.ratio
        rb == b.coverage.ratio
        ratioEq == (ra.num * rb.den) = (rb.num * ra.den)
        ratioGt == (ra.num * rb.den) > (rb.num * ra.den)
        sa == Len(a.shortages)
        sb == Len(b.shortages)
    IN  \/ ua < ub
        \/ ua = ub /\ ratioGt
        \/ ua = ub /\ ratioEq /\ sa < sb
        \/ ua = ub /\ ratioEq /\ sa = sb /\ a.recipe.name < b.recipe.name
        \/ ua = ub /\ ratioEq /\ sa = sb /\ a.recipe.name = b.recipe.name
              /\ a.recipe.id <= b.recipe.id

\* C3: in allRanked every record that precedes another is less than or equal
\* to it under the key (urgency ascending with +Infinity last, coverage ratio
\* descending, shortage count ascending, name ascending, id ascending); a
\* fully satisfiable recipe expiring sooner precedes one expiring later, and
\* both precede a recipe with no expiry signal.  allRanked holds exactly the
\* evaluations of the input recipes.
C3_RankedByKey ==
    \A k \in 1..Len(recommendations) :
        LET all == recommendations[k].allRanked
        IN  /\ Len(all) = Len(recipes)
            /\ \A r \in Range(recipes) :
                  Cardinality({i \in 1..Len(all) : all[i].recipe = r})
                     = Cardinality({i \in 1..Len(recipes) : recipes[i] = r})
            /\ \A i \in 1..Len(all) :
                  all[i] = evaluateRecipeRecommendation(all[i].recipe,
                                                        inventoryItems, now)
            /\ \A i, j \in 1..Len(all) : i < j => KeyLeq(all[i], all[j])
            /\ \A i, j \in 1..Len(all) :
                  ( /\ all[i].matchStatus = "fully_satisfiable"
                    /\ all[i].rankingFactors.hasExpiringIngredientSignal
                    /\ \/ ~all[j].rankingFactors.hasExpiringIngredientSignal
                       \/ all[i].rankingFactors.daysUntilMostUrgentExpiry
                            < all[j].rankingFactors.daysUntilMostUrgentExpiry )
                  => i < j

\* C3 witness: a fully satisfiable recipe with a later expiry and one with a
\* sooner expiry, given later-first, come out sooner-first.
C3_Witness ==
    /\ recommendations # <<>>
    /\ Len(recipes) = 2
    /\ LET all == recommendations[1].allRanked
       IN  /\ all[1].recipe = recipes[2]
           /\ all[2].recipe = recipes[1]
           /\ all[1].matchStatus = "fully_satisfiable"
           /\ all[2].matchStatus = "fully_satisfiable"
           /\ all[1].rankingFactors.daysUntilMostUrgentExpiry = 1
           /\ all[2].rankingFactors.daysUntilMostUrgentExpiry = 2

----------------------------------------------------------------------------
(* Planner: inputs and actions *)

MaxEntries == 2

\* Ingredient lines: the same item in two units of one family with a quantity
\* of half a thousandth, and a countable item with quantity 2.
PlanIngredients ==
    { [inventoryItemId |-> "item_a", quantity |-> 2, unit |-> "g"],
      [inventoryItemId |-> "item_a", quantity |-> 2, unit |-> "kg"],
      [inventoryItemId |-> "item_b", quantity |-> 2 * FinePerUnit, unit |-> "count"] }

PlanIngredientLists == SeqsUpTo(PlanIngredients, MaxIngredients)

\* The catalog holds no recipe, recipe_a, or recipe_a and recipe_b.
PlanCatalogs ==
    {<<>>}
    \cup {<<[id |-> "recipe_a", ingredients |-> a]>> : a \in PlanIngredientLists}
    \cup {<<[id |-> "recipe_a", ingredients |-> a],
            [id |-> "recipe_b", ingredients |-> b]>> :
              a \in PlanIngredientLists, b \in PlanIngredientLists}

\* portionMultiplier 1 or 1.5
PlanMultipliers == {[num |-> 1, den |-> 1], [num |-> 3, den |-> 2]}

\* The entry at position k carries id k; its recipe may be missing from the catalog.
PlanEntryLists ==
    UNION { { [k \in 1..n |-> [id |-> k, recipeId |-> f[k].recipeId,
                               portionMultiplier |-> f[k].portionMultiplier]] :
              f \in [1..n -> [recipeId : {"recipe_a", "recipe_b"},
                              portionMultiplier : PlanMultipliers]] } :
            n \in 0..MaxEntries }

InitPlan ==
    /\ planEntries \in PlanEntryLists
    /\ recipeCatalog \in PlanCatalogs
    /\ demandRows = <<>>
    /\ inventoryItems = <<>>
    /\ IdleRec /\ IdleShop /\ IdleSync /\ IdleOther

AggregateDemand ==
    /\ demandRows = <<>>
    /\ demandRows' = <<aggregateIngredientDemand(planEntries, recipeCatalog)>>
    /\ UNCHANGED <<planEntries, recipeCatalog>>
    /\ UNCHANGED <<inventoryItems, recVars, shopVars, syncVars, otherVars>>

SpecPlan == InitPlan /\ [][AggregateDemand]_vars

----------------------------------------------------------------------------
(* Shopping: inputs and actions *)

MaxDemandRows == 2

\* Required quantities: 0.00025 (rounds to 0), 1.00025 (rounds to 1) and 1.3.
ShopDemandRows ==
    [inventoryItemId : {"item_a_001", "item_b_001"}, unit : {"count", "l"},
     requiredQuantity : {1, FinePerUnit + 1, (13 * FinePerUnit) \div 10},
     sourceMealPlanEntryIds : {<<1>>}]

\* On-hand quantities: 0.00075 (rounds to 0.001), 0.2 and 2.
ShopInventories ==
    LET itemA == [id : {"item_a_001"}, name : {"Item A"},
                  quantity : {3, FinePerUnit \div 5, 2 * FinePerUnit},
                  unit : {"count", "pcs", "l"}, category : {"CANNED"}]
        itemB == [id : {"item_b_001"}, name : {"Item B"}, quantity : {3},
                  unit : {"count"}, category : {"", "Bakery"}]
    IN  {a \o b : a \in {<<>>} \cup {<<x>> : x \in itemA},
                  b \in {<<>>} \cup {<<x>> : x \in itemB}}

InitShop ==
    /\ shopDemand \in SeqsUpTo(ShopDemandRows, MaxDemandRows)
    /\ inventoryItems \in ShopInventories
    /\ shoppingItems = <<>>
    /\ IdleRec /\ IdlePlan /\ IdleSync /\ IdleOther

GenerateShopping ==
    /\ shoppingItems = <<>>
    /\ shoppingItems' = <<generateShoppingItems(shopDemand, inventoryItems)>>
    /\ UNCHANGED <<shopDemand, inventoryItems, recVars, planVars, syncVars, otherVars>>

SpecShop == InitShop /\ [][GenerateShopping]_vars

----------------------------------------------------------------------------
(* Sync: inputs and actions *)

SyncInstants == {0, 1000, 1001, 120000, 120001, 600000}

SyncTimestamps ==
    {[kind |-> "iso", ms |-> t] : t \in SyncInstants}
    \cup {[kind |-> "malformed", ms |-> 0], [kind |-> "undefined", ms |-> 0]}

\* An envelope is absent, or present with a state object or a null state.
SyncEnvelopes(stateName) ==
    {<<>>} \cup
    {<<[schemaVersion |-> 1, exportedAtUtc |-> ts, deviceId |-> "device",
        source |-> "pantrymanager-web", state |-> st]>> :
          ts \in SyncTimestamps, st \in {<<stateName>>, <<>>}}

\* driftToleranceMs absent (the default applies), 0, 1000 or 120000; callers
\* pass no negative tolerance.
SyncOptions == {[driftToleranceMs |-> d] : d \in {<<>>, <<0>>, <<1000>>, <<120000>>}}

InitSync ==
    /\ localEnvelope \in SyncEnvelopes("local_state")
    /\ remoteEnvelope \in SyncEnvelopes("remote_state")
    /\ syncOptions \in SyncOptions
    /\ decision = <<>>
    /\ resolution = <<>>
    /\ inventoryItems = <<>>
    /\ IdleRec /\ IdlePlan /\ IdleShop /\ IdleOther

CompareEnvelopes ==
    /\ decision = <<>>
    /\ decision' = <<compareSyncEnvelopes(localEnvelope, remoteEnvelope, syncOptions)>>
    /\ UNCHANGED <<localEnvelope, remoteEnvelope, syncOptions, resolution>>
    /\ UNCHANGED <<inventoryItems, recVars, planVars, shopVars, otherVars>>

ResolveConflict ==
    /\ resolution = <<>>
    /\ resolution' = <<resolveSyncConflict(localEnvelope, remoteEnvelope, syncOptions)>>
    /\ UNCHANGED <<localEnvelope, remoteEnvelope, syncOptions, decision>>
    /\ UNCHANGED <<inventoryItems, recVars, planVars, shopVars, otherVars>>

NextSync == CompareEnvelopes \/ ResolveConflict

SpecSync == InitSync /\ [][NextSync]_vars

----------------------------------------------------------------------------
(* Planner: properties *)

\* The recipe an entry resolves to: a recipe of the catalog with the entry's
\* recipeId (catalog ids are distinct), or none.
IsStale(entry) == \A c \in 1..Len(recipeCatalog) : recipeCatalog[c].id # entry.recipeId

LinesOf(entry) ==
    IF IsStale(entry) THEN <<>>
    ELSE (CHOOSE r \in Range(recipeCatalog) : r.id = entry.recipeId).ingredients

\* The contributions to the row of (itemId, unit): pairs <<e, l>> of an entry
\* position and a line position of its recipe.
Contributions(itemId, unit) ==
    {<<e, l>> \in (1..Len(planEntries)) \X (1..MaxIngredients + 1) :
        /\ l <= Len(LinesOf(planEntries[e]))
        /\ LinesOf(planEntries[e])[l].inventoryItemId = itemId
        /\ LinesOf(planEntries[e])[l].unit = unit}

DemandedPairs ==
    {<<LinesOf(planEntries[e])[l].inventoryItemId, LinesOf(planEntries[e])[l].unit>> :
        <<e, l>> \in {x \in (1..Len(planEntries)) \X (1..MaxIngredients + 1) :
                         x[2] <= Len(LinesOf(planEntries[x[1]]))}}

\* C4: aggregateIngredientDemand emits exactly one row per distinct
\* (inventoryItemId, unit) pair demanded by the processed entries; lines of
\* one item with different unit tokens never share a row, lines with the same
\* item and unit token always do.
C4_OneRowPerItemAndUnit ==
    \A k \in 1..Len(demandRows) :
        LET rows == demandRows[k]
        IN  /\ \A i, j \in 1..Len(rows) :
                  (rows[i].inventoryItemId = rows[j].inventoryItemId
                     /\ rows[i].unit = rows[j].unit) => i = j
            /\ {<<rows[i].inventoryItemId, rows[i].unit>> : i \in 1..Len(rows)}
                  = DemandedPairs
            /\ \A i \in 1..Len(rows) :
                  Len(rows[i].sourceMealPlanEntryIds)
                     = Cardinality(Contributions(rows[i].inventoryItemId, rows[i].unit))

\* C4 witness: item_a is demanded in g and in kg, and twice in g; there is a
\* g row fed by two lines and a separate kg row.
C4_Witness ==
    /\ demandRows # <<>>
    /\ \E i, j \in 1..Len(demandRows[1]) :
          /\ demandRows[1][i].inventoryItemId = "item_a"
          /\ demandRows[1][j].inventoryItemId = "item_a"
          /\ demandRows[1][i].unit = "g"
          /\ demandRows[1][j].unit = "kg"
          /\ Len(demandRows[1][i].sourceMealPlanEntryIds) = 2

\* Sum of quantity * portionMultiplier over a set of contributions.
RECURSIVE SumContributions(_)
SumContributions(S) ==
    IF S = {} THEN 0
    ELSE LET c == CHOOSE x \in S : TRUE
             entry == planEntries[c[1]]
             line == LinesOf(entry)[c[2]]
         IN  ((line.quantity * entry.portionMultiplier.num)
                 \div entry.portionMultiplier.den)
             + SumContributions(S \ {c})

\* r is x rounded to 3 decimals: the multiple of 0.001 nearest to x, the
\* larger one on a tie.
IsRoundedTo3(r, x) ==
    /\ r % FinePerMilli = 0
    /\ (2 * r) - FinePerMilli <= 2 * x
    /\ 2 * x < (2 * r) + FinePerMilli

\* The entry ids of a set of contributions in processing order (entry by
\* entry, line by line).
RECURSIVE IdsInOrder(_)
IdsInOrder(S) ==
    IF S = {} THEN <<>>
    ELSE LET first == CHOOSE x \in S : \A y \in S :
                          x[1] < y[1] \/ (x[1] = y[1] /\ x[2] <= y[2])
         IN  <<planEntries[first[1]].id>> \o IdsInOrder(S \ {first})

\* C5: each row's requiredQuantity is the sum of quantity * portionMultiplier
\* over the contributing lines of the resolved entries, rounded to 3 decimals
\* once at the end, and sourceMealPlanEntryIds lists the contributing entries'
\* ids in processing order (one id per contributing line).
C5_RequiredQuantityIsRoundedSum ==
    \A k \in 1..Len(demandRows) :
        \A i \in 1..Len(demandRows[k]) :
            LET row == demandRows[k][i]
                contributions == Contributions(row.inventoryItemId, row.unit)
            IN  /\ IsRoundedTo3(row.requiredQuantity, SumContributions(contributions))
                /\ row.sourceMealPlanEntryIds = IdsInOrder(contributions)

\* C5 witness: the recipe with 2 count of item_b planned with multipliers 1
\* and 1.5 gives a row of 5 with both entry ids in entry order.
C5_Witness ==
    /\ demandRows # <<>>
    /\ Len(planEntries) = 2
    /\ planEntries[1].portionMultiplier = [num |-> 1, den |-> 1]
    /\ planEntries[2].portionMultiplier = [num |-> 3, den |-> 2]
    /\ \E i \in 1..Len(demandRows[1]) :
          /\ demandRows[1][i].inventoryItemId = "item_b"
          /\ demandRows[1][i].requiredQuantity = 5 * FinePerUnit
          /\ demandRows[1][i].sourceMealPlanEntryIds = <<1, 2>>

\* C5 witness of the rounding: two contributions of 0.0005 and 0.00075 (each
\* would round up alone) give 0.001, the rounding of their sum 0.00125.
C5_RoundingWitness ==
    /\ demandRows # <<>>
    /\ \E i \in 1..Len(demandRows[1]) :
          LET row == demandRows[1][i]
          IN  /\ Cardinality(Contributions(row.inventoryItemId, row.unit)) = 2
              /\ SumContributions(Contributions(row.inventoryItemId, row.unit)) = 5
              /\ row.requiredQuantity = FinePerMilli

RECURSIVE WithoutStale(_)
WithoutStale(entries) ==
    IF entries = <<>> THEN <<>>
    ELSE (IF IsStale(Head(entries)) THEN <<>> ELSE <<Head(entries)>>)
         \o WithoutStale(Tail(entries))

\* C6: an entry whose recipeId is not in the catalog is skipped: the result
\* is produced, the entry's id is in no sourceMealPlanEntryIds list, and the
\* rows equal those computed from the entries without the stale ones.
C6_StaleEntriesSkipped ==
    \A k \in 1..Len(demandRows) :
        /\ demandRows[k] = aggregateIngredientDemand(WithoutStale(planEntries),
                                                     recipeCatalog)
        /\ \A e \in 1..Len(planEntries) :
              IsStale(planEntries[e]) =>
                  \A i \in 1..Len(demandRows[k]) :
                      \A j \in 1..Len(demandRows[k][i].sourceMealPlanEntryIds) :
                          demandRows[k][i].sourceMealPlanEntryIds[j] # planEntries[e].id
        /\ (\A e \in 1..Len(planEntries) : IsStale(planEntries[e]))
              => demandRows[k] = <<>>

\* C6 witness: a stale entry processed before a resolved one; only the
\* resolved entry produced rows.
C6_Witness ==
    /\ demandRows # <<>>
    /\ Len(planEntries) = 2
    /\ IsStale(planEntries[1])
    /\ ~IsStale(planEntries[2])
    /\ recipeCatalog # <<>>
    /\ Len(demandRows[1]) > 0

----------------------------------------------------------------------------
(* Shopping: properties *)

\* x rounded to 3 decimals, found among the two neighbouring multiples of 0.001.
NearestMilli(x) ==
    LET below == (x \div FinePerMilli) * FinePerMilli
    IN  CHOOSE r \in {below, below + FinePerMilli} : IsRoundedTo3(r, x)

\* The inventory items with the demand row's id and the identical unit token
\* (inventory ids are distinct).
ComparableItems(demand) ==
    {i \in 1..Len(inventoryItems) :
        /\ inventoryItems[i].id = demand.inventoryItemId
        /\ inventoryItems[i].unit = demand.unit}

ComparableOnHand(demand) ==
    IF ComparableItems(demand) = {} THEN 0
    ELSE inventoryItems[CHOOSE i \in ComparableItems(demand) : TRUE].quantity

\* A demand row is covered when its rounded requirement does not exceed the
\* rounded comparable on-hand quantity.
IsCovered(demand) ==
    NearestMilli(demand.requiredQuantity) <= NearestMilli(ComparableOnHand(demand))

RECURSIVE UncoveredRows(_)
UncoveredRows(rows) ==
    IF rows = <<>> THEN <<>>
    ELSE (IF IsCovered(Head(rows)) THEN <<>> ELSE <<Head(rows)>>)
         \o UncoveredRows(Tail(rows))

\* C7: no emitted shopping item has missingQuantity <= 0; a demand row whose
\* requirement is covered by the comparable on-hand quantity is dropped, and
\* every other row is emitted, in order.
C7_NoItemWithoutShortfall ==
    \A k \in 1..Len(shoppingItems) :
        LET items == shoppingItems[k]
            kept == UncoveredRows(shopDemand)
        IN  /\ \A i \in 1..Len(items) : items[i].missingQuantity > 0
            /\ Len(items) = Len(kept)
            /\ \A i \in 1..Len(items) :
                  /\ items[i].inventoryItemId = kept[i].inventoryItemId
                  /\ items[i].unit = kept[i].unit

\* C7 witness: of two demand rows, the first is covered by a comparable item
\* and dropped, the second is emitted.
C7_Witness ==
    /\ shoppingItems # <<>>
    /\ Len(shopDemand) = 2
    /\ ComparableItems(shopDemand[1]) # {}
    /\ NearestMilli(shopDemand[1].requiredQuantity) > 0
    /\ IsCovered(shopDemand[1])
    /\ Len(shoppingItems[1]) = 1
    /\ shoppingItems[1][1].inventoryItemId = shopDemand[2].inventoryItemId

\* C8: the available quantity of an emitted item is the (rounded) quantity of
\* the inventory item with the row's id and the identical unit token; with no
\* such item (none with the id, or one with another token such as pcs for
\* count) it is 0 and the whole required quantity is reported missing.
C8_AvailableOnlyForIdenticalUnit ==
    \A k \in 1..Len(shoppingItems) :
        LET items == shoppingItems[k]
            kept == UncoveredRows(shopDemand)
        IN  /\ Len(items) = Len(kept)
            /\ \A i \in 1..Len(items) :
                  IF ComparableItems(kept[i]) # {}
                  THEN items[i].availableQuantity
                          = NearestMilli(ComparableOnHand(kept[i]))
                  ELSE /\ items[i].availableQuantity = 0
                       /\ items[i].missingQuantity = items[i].requiredQuantity
                       /\ items[i].missingQuantity
                             = NearestMilli(kept[i].requiredQuantity)

\* C8 witness: a count demand meets an inventory item of the same id kept in
\* pcs; nothing is available and the whole requirement is missing.
C8_Witness ==
    /\ shoppingItems # <<>>
    /\ Len(shopDemand) = 1
    /\ shopDemand[1].unit = "count"
    /\ \E i \in 1..Len(inventoryItems) :
          /\ inventoryItems[i].id = shopDemand[1].inventoryItemId
          /\ inventoryItems[i].unit = "pcs"
          /\ inventoryItems[i].quantity > shopDemand[1].requiredQuantity
    /\ Len(shoppingItems[1]) = 1
    /\ shoppingItems[1][1].availableQuantity = 0
    /\ shoppingItems[1][1].missingQuantity = shoppingItems[1][1].requiredQuantity

\* C9: every emitted item satisfies missingQuantity = round(requiredQuantity
\* - availableQuantity, 3) on the emitted, already rounded, values.
C9_MissingIsRoundedDifference ==
    \A k \in 1..Len(shoppingItems) :
        \A i \in 1..Len(shoppingItems[k]) :
            LET item == shoppingItems[k][i]
            IN  /\ item.requiredQuantity - item.availableQuantity > 0
                /\ IsRoundedTo3(item.missingQuantity,
                                item.requiredQuantity - item.availableQuantity)
                /\ item.requiredQuantity % FinePerMilli = 0
                /\ item.availableQuantity % FinePerMilli = 0

\* C9 witness: required 1.3 and available 0.2 give missing 1.1.
C9_Witness ==
    /\ shoppingItems # <<>>
    /\ \E i \in 1..Len(shoppingItems[1]) :
          /\ shoppingItems[1][i].requiredQuantity = (13 * FinePerUnit) \div 10
          /\ shoppingItems[1][i].availableQuantity = FinePerUnit \div 5
          /\ shoppingItems[1][i].missingQuantity = (11 * FinePerUnit) \div 10

\* C9 witness of the rounding: required 1.00025 (emitted 1) and available
\* 0.00075 (emitted 0.001) give missing 0.999, not round(0.9995) = 1.
C9_RoundingWitness ==
    /\ shoppingItems # <<>>
    /\ Len(shopDemand) = 1
    /\ shopDemand[1].requiredQuantity = FinePerUnit + 1
    /\ ComparableOnHand(shopDemand[1]) = 3
    /\ Len(shoppingItems[1]) = 1
    /\ shoppingItems[1][1].missingQuantity = FinePerUnit - FinePerMilli

----------------------------------------------------------------------------
(* Sync: properties *)

BothParse ==
    /\ localEnvelope # <<>>
    /\ remoteEnvelope # <<>>
    /\ localEnvelope[1].exportedAtUtc.kind = "iso"
    /\ remoteEnvelope[1].exportedAtUtc.kind = "iso"

DeltaMs == remoteEnvelope[1].exportedAtUtc.ms - localEnvelope[1].exportedAtUtc.ms

ToleranceMs ==
    IF syncOptions.driftToleranceMs = <<>> THEN 120000
    ELSE syncOptions.driftToleranceMs[1]

\* C10: with both envelopes present and both timestamps parsed, the winner is
\* remote if and only if remoteMs - localMs > driftToleranceMs, and local
\* otherwise; an envelope compared with itself yields local even with
\* tolerance 0.
C10_RemoteWinsIffNewerBeyondTolerance ==
    \A k \in 1..Len(decision) :
        BothParse =>
            /\ (decision[k].winner = "remote") <=> (DeltaMs > ToleranceMs)
            /\ (decision[k].winner = "local") <=> (DeltaMs <= ToleranceMs)
            /\ (DeltaMs = 0) => (decision[k].winner = "local")

\* C10 witness: the remote is newer by exactly the tolerance and local wins.
C10_Witness ==
    /\ decision # <<>>
    /\ BothParse
    /\ syncOptions.driftToleranceMs = <<1000>>
    /\ DeltaMs = 1000
    /\ decision[1].winner = "local"

\* C10 witness: the remote is 10 minutes newer with tolerance 1000 ms.
C10_RemoteWitness ==
    /\ decision # <<>>
    /\ BothParse
    /\ syncOptions.driftToleranceMs = <<1000>>
    /\ DeltaMs = 600000
    /\ decision[1].winner = "remote"

BothPresent == localEnvelope # <<>> /\ remoteEnvelope # <<>>

\* C11: with both envelopes present and at least one exportedAtUtc that does
\* not parse, compareSyncEnvelopes returns winner local with the malformed-
\* timestamp reason, whatever the other timestamp and the tolerance are.
C11_MalformedTimestampKeepsLocal ==
    \A k \in 1..Len(decision) :
        (BothPresent /\ ~BothParse) =>
            /\ decision[k].winner = "local"
            /\ decision[k].reason =
                  "Malformed timestamp detected; local snapshot retained for safety."

\* C11 witness: the local timestamp is malformed, the remote one parses and
\* is far beyond the tolerance, and local is retained.
C11_Witness ==
    /\ decision # <<>>
    /\ BothPresent
    /\ localEnvelope[1].exportedAtUtc.kind = "malformed"
    /\ remoteEnvelope[1].exportedAtUtc = [kind |-> "iso", ms |-> 600000]
    /\ syncOptions.driftToleranceMs = <<0>>
    /\ decision[1].winner = "local"

\* The state carried by an envelope; <<>> when it carries null.
StateOf(envelope) == envelope[1].state

\* C12: resolveSyncConflict returns the source compareSyncEnvelopes chooses
\* for the same arguments and the state of the winning envelope: both absent
\* gives a null state and source none, exactly one present gives that
\* envelope's state and side, and the losing state is never returned.
C12_ResolutionFollowsWinner ==
    \A k \in 1..Len(resolution) :
        LET r == resolution[k]
            d == compareSyncEnvelopes(localEnvelope, remoteEnvelope, syncOptions)
        IN  /\ r.source = d.winner
            /\ r.reason = d.reason
            /\ (localEnvelope = <<>> /\ remoteEnvelope = <<>>)
                  => (r.source = "none" /\ r.state = <<>>)
            /\ (localEnvelope # <<>> /\ remoteEnvelope = <<>>)
                  => (r.source = "local" /\ r.state = StateOf(localEnvelope))
            /\ (localEnvelope = <<>> /\ remoteEnvelope # <<>>)
                  => (r.source = "remote" /\ r.state = StateOf(remoteEnvelope))
            /\ (BothPresent /\ r.source = "local") => r.state = StateOf(localEnvelope)
            /\ (BothPresent /\ r.source = "remote") => r.state = StateOf(remoteEnvelope)
            /\ r.source = "local" => r.state # <<"remote_state">>
            /\ r.source = "remote" => r.state # <<"local_state">>

\* C12 witness: both present, the remote wins and its state is returned.
C12_Witness ==
    /\ resolution # <<>>
    /\ BothPresent
    /\ resolution[1].source = "remote"
    /\ resolution[1].state = <<"remote_state">>
    /\ StateOf(localEnvelope) = <<"local_state">>

----------------------------------------------------------------------------
(* Migration: inputs and actions *)

\* schemaVersion absent, older than 0, legacy 0, current, newer (as a number
\* and as a string), and a text Number() turns into NaN.
MigrateVersions ==
    {Undefined, Num("-1"), Num("0"), Num("1"), Num("2"), Str("2"), Str("legacy")}

MigratePayloads ==
    {Primitive(Null), Primitive(Str("text")), Primitive(Num("7"))}
    \cup
    {Payload(Obj("payload"), sv, utc, legacy, dev, src, st) :
        sv \in MigrateVersions,
        utc \in {Undefined, Str("2026-02-01T00:00:00.000Z")},
        legacy \in {Undefined, Str("2026-01-01T00:00:00.000Z")},
        dev \in {Undefined, Str(""), Str("device_1"), Num("7")},
        src \in {Undefined, Str("import")},
        st \in {Undefined, Null, Str("text"), Obj("{ok:true}")}}

ClockReadings == {"2026-03-01T00:00:00.000Z", "2026-03-02T00:00:00.000Z"}

InitMigrate ==
    /\ rawEnvelope \in MigratePayloads
    /\ clockIso = ""
    /\ migrated = <<>>
    /\ remigrated = <<>>
    /\ inventoryItems = <<>>
    /\ IdleRec /\ IdlePlan /\ IdleShop /\ IdleSync
    /\ IdleRetention /\ IdleJobs /\ IdleLate

\* An import migrates the payload it parsed.
MigrateEnvelope ==
    /\ migrated = <<>>
    /\ \E t \in ClockReadings :
          /\ clockIso' = t
          /\ migrated' = <<migrateSyncEnvelope(rawEnvelope, t)>>
    /\ UNCHANGED <<rawEnvelope, remigrated>>
    /\ UNCHANGED <<inventoryItems, recVars, planVars, shopVars, syncVars>>
    /\ UNCHANGED <<retVars, jobVars, lateVars>>

\* A later import migrates an envelope that was migrated before.
MigrateAgain ==
    /\ migrated # <<>>
    /\ remigrated = <<>>
    /\ \E t \in ClockReadings :
          remigrated' = <<migrateSyncEnvelope(migrated[1], t)>>
    /\ UNCHANGED <<rawEnvelope, clockIso, migrated>>
    /\ UNCHANGED <<inventoryItems, recVars, planVars, shopVars, syncVars>>
    /\ UNCHANGED <<retVars, jobVars, lateVars>>

NextMigrate == MigrateEnvelope \/ MigrateAgain

SpecMigrate == InitMigrate /\ [][NextMigrate]_vars

----------------------------------------------------------------------------
(* Migration: properties *)

IsObjectPayload == rawEnvelope.t = "object"

\* The payload's schemaVersion is the current version or a newer one.
IsCurrentOrNewerPayload ==
    IsObjectPayload /\ rawEnvelope.schemaVersion \in {Num("1"), Num("2"), Str("2")}

\* An object with the current schemaVersion, string exportedAtUtc, deviceId
\* and source, and an object state.
IsValidCurrentEnvelope(e) ==
    /\ e.t = "object"
    /\ e.schemaVersion = Num("1")
    /\ e.exportedAtUtc.t = "string"
    /\ e.deviceId.t = "string"
    /\ e.source.t = "string"
    /\ e.state.t = "object"

\* C13: an envelope whose schemaVersion is current or newer is returned
\* unchanged, and migrating the result of a migration returns that result.
C13_MigrationIdempotent ==
    /\ \A k \in 1..Len(migrated) :
          /\ IsCurrentOrNewerPayload => migrated[k] = rawEnvelope
          /\ \A t \in ClockReadings : migrateSyncEnvelope(migrated[k], t) = migrated[k]
    /\ \A k \in 1..Len(remigrated) : remigrated[k] = migrated[1]

\* C13 witness: a current-version envelope lacking a deviceId went through
\* two migrations unchanged.
C13_Witness ==
    /\ remigrated # <<>>
    /\ IsObjectPayload
    /\ rawEnvelope.schemaVersion = Num("1")
    /\ rawEnvelope.deviceId = Undefined
    /\ remigrated[1] = rawEnvelope

\* C14 as stated: every payload, current and newer ones included, comes out
\* as a valid current-schema envelope.
C14_AlwaysValidCurrentEnvelope ==
    \A k \in 1..Len(migrated) : IsValidCurrentEnvelope(migrated[k])

\* C14 (amended): a null, non-object or older-than-current payload comes out
\* as a valid current-schema envelope; a payload whose schemaVersion is
\* current or newer comes out valid exactly when it went in valid.
C14_OlderOrMalformedBecomesValid ==
    \A k \in 1..Len(migrated) :
        /\ ~IsCurrentOrNewerPayload => IsValidCurrentEnvelope(migrated[k])
        /\ IsCurrentOrNewerPayload =>
              (IsValidCurrentEnvelope(migrated[k]) <=> IsValidCurrentEnvelope(rawEnvelope))

\* C14 witness: a legacy payload without deviceId, source and with a
\* non-object state has been given all of them.
C14_Witness ==
    /\ migrated # <<>>
    /\ IsObjectPayload
    /\ rawEnvelope.schemaVersion = Num("0")
    /\ rawEnvelope.deviceId = Undefined
    /\ rawEnvelope.source = Undefined
    /\ rawEnvelope.state = Str("text")
    /\ IsValidCurrentEnvelope(migrated[1])
    /\ migrated[1].deviceId = Str("unknown-device")
    /\ migrated[1].state = Obj("{}")

\* The version-0 normalization of the payload's fields, read at clock nowIso.
IsPresent(x) == x # Undefined /\ x # Str("")

Version0Normalized(e, nowIso) ==
    Payload(Obj("envelope"), Num("1"),
            IF IsPresent(e.exportedAtUtc) THEN e.exportedAtUtc
            ELSE IF IsPresent(e.exportedAt) THEN e.exportedAt
            ELSE Str(nowIso),
            Undefined,
            IF IsPresent(e.deviceId) THEN Str(e.deviceId.v) ELSE Str("unknown-device"),
            IF IsPresent(e.source) THEN Str(e.source.v) ELSE Str("pantrymanager-web"),
            IF e.state.t = "object" THEN e.state ELSE Obj("{}"))

\* The payload's schemaVersion is older than the current version.
IsOlderPayload == IsObjectPayload /\ ~IsCurrentOrNewerPayload

\* C15: a version-0 or version-less envelope is normalized (current version,
\* exportedAtUtc falling back to the legacy exportedAt, deviceId and source
\* defaulted, a non-object state replaced by {}), and every other version
\* older than current gives the result of the version-0 path.
C15_OlderVersionsNormalizedLikeVersion0 ==
    \A k \in 1..Len(migrated) :
        IsOlderPayload => migrated[k] = Version0Normalized(rawEnvelope, clockIso)

----------------------------------------------------------------------------
(* General retention: inputs and actions *)

MaxRetentionRecords == 2

\* 2026-03-10T00:00:00.000Z
RetentionNow == DaysFromCivil(2026, 3, 10) * TicksPerDay

Ago(ticks) == IsoDate(RetentionNow - ticks)

\* One tick short of, and exactly, 7 and 30 days.
RetentionAges ==
    {7 * TicksPerDay - 1, 7 * TicksPerDay, 30 * TicksPerDay - 1, 30 * TicksPerDay}

LongAgo == Ago(60 * TicksPerDay)

\* Records never archived: updatedAt absent, malformed, around the thresholds
\* or the date 2026-02-08 (30 days before now); createdAt as a fallback, or
\* later than an old updatedAt.
ActiveShapes ==
    [updatedAt : {AbsentDate, MalformedDate, Ago(7 * TicksPerDay - 1)},
     createdAt : {AbsentDate, MalformedDate, LongAgo},
     archivedAt : {AbsentDate}]
    \cup
    {[updatedAt |-> Ago(30 * TicksPerDay), createdAt |-> Ago(TicksPerDay),
      archivedAt |-> AbsentDate]}
    \cup
    [updatedAt : {Ago(a) : a \in RetentionAges}
                 \cup {DateOnly(DaysFromCivil(2026, 2, 8))},
     createdAt : {AbsentDate},
     archivedAt : {AbsentDate}]

\* Records carrying archivedAt: malformed or around the thresholds.
ArchivedShapes ==
    [updatedAt : {AbsentDate, LongAgo},
     createdAt : {AbsentDate},
     archivedAt : {MalformedDate} \cup {Ago(a) : a \in RetentionAges}]

RetentionShapes == ActiveShapes \cup ArchivedShapes

\* Arrays of up to max records of the given shapes; the record at position k
\* carries id k.
RecordLists(shapes, max) ==
    UNION { { [k \in 1..n |-> [id |-> k, updatedAt |-> f[k].updatedAt,
                               createdAt |-> f[k].createdAt,
                               archivedAt |-> f[k].archivedAt]] :
              f \in [1..n -> shapes] } :
            n \in 0..max }

\* Each threshold is left to its default (30 days) or set to 7 days.
RetentionOptions ==
    [now : {RetentionNow}, archiveAfterDays : {<<>>, <<7>>},
     deleteAfterArchiveDays : {<<>>, <<7>>}]

InitRetention ==
    /\ retentionRecords \in RecordLists(RetentionShapes, MaxRetentionRecords)
    /\ retentionOptions \in RetentionOptions
    /\ retentionResult = <<>>
    /\ inventoryItems = <<>>
    /\ IdleRec /\ IdlePlan /\ IdleShop /\ IdleSync
    /\ IdleMigrate /\ IdleJobs /\ IdleLate

ApplyGeneralRetention ==
    /\ retentionResult = <<>>
    /\ retentionResult' = <<applyGeneralRetention(retentionRecords, retentionOptions)>>
    /\ UNCHANGED <<retentionRecords, retentionOptions>>
    /\ UNCHANGED <<inventoryItems, recVars, planVars, shopVars, syncVars>>
    /\ UNCHANGED <<migVars, jobVars, lateVars>>

SpecRetention == InitRetention /\ [][ApplyGeneralRetention]_vars

----------------------------------------------------------------------------
(* General retention: properties *)

Parses(date) == date.kind \in {"iso", "date"}

ArchiveAfterTicks ==
    (IF retentionOptions.archiveAfterDays = <<>> THEN 30
     ELSE retentionOptions.archiveAfterDays[1]) * TicksPerDay

DeleteAfterTicks ==
    (IF retentionOptions.deleteAfterArchiveDays = <<>> THEN 30
     ELSE retentionOptions.deleteAfterArchiveDays[1]) * TicksPerDay

HasId(records, id) == \E i \in 1..Len(records) : records[i].id = id

IsDeleteEligible(record) ==
    /\ Parses(record.archivedAt)
    /\ retentionOptions.now - record.archivedAt.ms >= DeleteAfterTicks

\* C16: a record whose archivedAt parses and lies deleteAfterArchiveDays days
\* or more before now is in neither active nor archived, whatever its
\* updatedAt and createdAt; it is reported in deleted.
C16_ExpiredArchiveOnlyInDeleted ==
    \A k \in 1..Len(retentionResult) :
        \A i \in 1..Len(retentionRecords) :
            LET record == retentionRecords[i]
                out == retentionResult[k]
            IN  IsDeleteEligible(record) =>
                    /\ ~HasId(out.active, record.id)
                    /\ ~HasId(out.archived, record.id)
                    /\ record \in Range(out.deleted)

\* C16 witness: archived exactly 7 days ago with a 7-day window, and deleted.
C16_Witness ==
    /\ retentionResult # <<>>
    /\ retentionOptions.deleteAfterArchiveDays = <<7>>
    /\ Len(retentionRecords) = 1
    /\ retentionRecords[1].archivedAt = Ago(7 * TicksPerDay)
    /\ retentionResult[1].deleted = retentionRecords
    /\ retentionResult[1].archived = <<>>

\* C18: a record without archivedAt whose updatedAt parses is archived exactly
\* when now - updatedAt >= archiveAfterDays days: it is then in archived as a
\* copy stamped archivedAt = now and not in active; below the threshold it is
\* in active, unchanged.
C18_ArchivedExactlyAtThreshold ==
    \A k \in 1..Len(retentionResult) :
        \A i \in 1..Len(retentionRecords) :
            LET record == retentionRecords[i]
                out == retentionResult[k]
            IN  (record.archivedAt = AbsentDate /\ Parses(record.updatedAt)) =>
                    IF retentionOptions.now - record.updatedAt.ms >= ArchiveAfterTicks
                    THEN /\ [record EXCEPT !.archivedAt = IsoDate(retentionOptions.now)]
                               \in Range(out.archived)
                         /\ ~HasId(out.active, record.id)
                         /\ ~HasId(out.deleted, record.id)
                    ELSE /\ record \in Range(out.active)
                         /\ ~HasId(out.archived, record.id)
                         /\ ~HasId(out.deleted, record.id)

\* C18 witness: updated exactly 30 days ago under the default threshold, and
\* archived with archivedAt = now.
C18_Witness ==
    /\ retentionResult # <<>>
    /\ retentionOptions.archiveAfterDays = <<>>
    /\ Len(retentionRecords) = 1
    /\ retentionRecords[1].updatedAt = Ago(30 * TicksPerDay)
    /\ retentionRecords[1].archivedAt = AbsentDate
    /\ retentionResult[1].active = <<>>
    /\ Len(retentionResult[1].archived) = 1
    /\ retentionResult[1].archived[1].archivedAt = IsoDate(RetentionNow)

\* C19: a record carrying archivedAt that is not delete-eligible is returned
\* in archived exactly as it came, its archivedAt not re-stamped, however old
\* its updatedAt and createdAt are.
C19_ArchivedNeverRestamped ==
    \A k \in 1..Len(retentionResult) :
        \A i \in 1..Len(retentionRecords) :
            LET record == retentionRecords[i]
                out == retentionResult[k]
            IN  (record.archivedAt # AbsentDate /\ ~IsDeleteEligible(record)) =>
                    /\ record \in Range(out.archived)
                    /\ \A j \in 1..Len(out.archived) :
                          out.archived[j].id = record.id
                              => out.archived[j].archivedAt = record.archivedAt
                    /\ ~HasId(out.active, record.id)
                    /\ ~HasId(out.deleted, record.id)

\* C19 witness: archived a tick less than 7 days ago, last updated 60 days
\* ago, and returned with the archivedAt it had.
C19_Witness ==
    /\ retentionResult # <<>>
    /\ Len(retentionRecords) = 1
    /\ retentionRecords[1].archivedAt = Ago(7 * TicksPerDay - 1)
    /\ retentionRecords[1].updatedAt = LongAgo
    /\ retentionResult[1].archived = retentionRecords

HasNoActivityDate(record) == ~Parses(record.updatedAt) /\ ~Parses(record.createdAt)

StaysActive(record, out) ==
    /\ record \in Range(out.active)
    /\ ~HasId(out.archived, record.id)
    /\ ~HasId(out.deleted, record.id)

\* C20 as stated: a record without a parseable updatedAt and createdAt, or
\* with an archivedAt that is present but does not parse, is returned in
\* active and is neither archived nor deleted.
C20_UnparseableDatesKeptActive ==
    \A k \in 1..Len(retentionResult) :
        \A i \in 1..Len(retentionRecords) :
            LET record == retentionRecords[i]
            IN  (\/ record.archivedAt = AbsentDate /\ HasNoActivityDate(record)
                 \/ record.archivedAt = MalformedDate)
                    => StaysActive(record, retentionResult[k])

\* C20 (amended): a record without archivedAt and without a parseable
\* updatedAt and createdAt is returned in active, neither archived nor
\* deleted; a record whose archivedAt is present but does not parse is
\* returned unchanged in archived, neither active nor deleted.
C20_UnparseableDatesNeverLost ==
    \A k \in 1..Len(retentionResult) :
        \A i \in 1..Len(retentionRecords) :
            LET record == retentionRecords[i]
                out == retentionResult[k]
            IN  /\ (record.archivedAt = AbsentDate /\ HasNoActivityDate(record))
                      => StaysActive(record, out)
                /\ record.archivedAt = MalformedDate =>
                      /\ record \in Range(out.archived)
                      /\ ~HasId(out.active, record.id)
                      /\ ~HasId(out.deleted, record.id)

\* C20 witness: one record with malformed updatedAt and createdAt stays
\* active, one with a malformed archivedAt stays archived.
C20_Witness ==
    /\ retentionResult # <<>>
    /\ Len(retentionRecords) = 2
    /\ retentionRecords[1].updatedAt = MalformedDate
    /\ retentionRecords[1].createdAt = MalformedDate
    /\ retentionRecords[1].archivedAt = AbsentDate
    /\ retentionRecords[2].archivedAt = MalformedDate
    /\ retentionResult[1].active = <<retentionRecords[1]>>
    /\ retentionResult[1].archived = <<retentionRecords[2]>>

\* The record is archived by the run: a copy with its id is in archived and
\* none is in active.
IsArchivedByRun(record, out) ==
    /\ HasId(out.archived, record.id)
    /\ ~HasId(out.active, record.id)

LaterOf(a, b) == IF a.ms >= b.ms THEN a ELSE b

\* C28: the activity timestamp that decides archive eligibility is
\* max(updatedAt, createdAt-fallback): a record with both updatedAt and
\* createdAt parseable is archived iff now minus the later of the two is at
\* least archiveAfterDays days, and createdAt alone is used when updatedAt is
\* absent or unparseable.
C28_ArchivedByLaterOfUpdatedAndCreated ==
    \A k \in 1..Len(retentionResult) :
        \A i \in 1..Len(retentionRecords) :
            LET record == retentionRecords[i]
                out == retentionResult[k]
            IN  record.archivedAt = AbsentDate =>
                    /\ (Parses(record.updatedAt) /\ Parses(record.createdAt)) =>
                          (IsArchivedByRun(record, out) <=>
                              retentionOptions.now
                                  - LaterOf(record.updatedAt, record.createdAt).ms
                                  >= ArchiveAfterTicks)
                    /\ (~Parses(record.updatedAt) /\ Parses(record.createdAt)) =>
                          (IsArchivedByRun(record, out) <=>
                              retentionOptions.now - record.createdAt.ms
                                  >= ArchiveAfterTicks)

\* C28 as the code has it: the activity timestamp is updatedAt, with createdAt
\* as the fallback: a record whose updatedAt parses is archived iff now minus
\* updatedAt is at least archiveAfterDays days, whether or not createdAt is
\* later, and createdAt alone is used when updatedAt is absent or unparseable.
C28_ArchivedByUpdatedElseCreated ==
    \A k \in 1..Len(retentionResult) :
        \A i \in 1..Len(retentionRecords) :
            LET record == retentionRecords[i]
                out == retentionResult[k]
            IN  record.archivedAt = AbsentDate =>
                    /\ (Parses(record.updatedAt) /\ Parses(record.createdAt)) =>
                          (IsArchivedByRun(record, out) <=>
                              retentionOptions.now - record.updatedAt.ms
                                  >= ArchiveAfterTicks)
                    /\ (~Parses(record.updatedAt) /\ Parses(record.createdAt)) =>
                          (IsArchivedByRun(record, out) <=>
                              retentionOptions.now - record.createdAt.ms
                                  >= ArchiveAfterTicks)

\* Updated 30 days ago and created yesterday: archived under the default
\* threshold, next to a record dated by createdAt alone.
C28_Witness ==
    /\ retentionResult # <<>>
    /\ retentionOptions.archiveAfterDays = <<>>
    /\ Len(retentionRecords) = 2
    /\ retentionRecords[1].updatedAt = Ago(30 * TicksPerDay)
    /\ retentionRecords[1].createdAt = Ago(TicksPerDay)
    /\ retentionRecords[2].updatedAt = MalformedDate
    /\ retentionRecords[2].createdAt = LongAgo
    /\ retentionResult[1].active = <<>>
    /\ Len(retentionResult[1].archived) = 2

----------------------------------------------------------------------------
(* Retention jobs: inputs and actions *)

MaxRuns == 3

\* Inventory records: updated a day ago, updated 30 days ago, or archived a
\* day ago.
JobShapes ==
    { [updatedAt |-> Ago(TicksPerDay), createdAt |-> AbsentDate, archivedAt |-> AbsentDate],
      [updatedAt |-> Ago(30 * TicksPerDay), createdAt |-> AbsentDate,
       archivedAt |-> AbsentDate],
      [updatedAt |-> AbsentDate, createdAt |-> AbsentDate,
       archivedAt |-> Ago(TicksPerDay)] }

\* Price points recorded a day ago and in January 2024.
JobPricePoints ==
    { [id |-> 1, recordedAt |-> Ago(TicksPerDay), createdAt |-> AbsentDate],
      [id |-> 1, recordedAt |-> DateOnly(DaysFromCivil(2024, 1, 1)),
       createdAt |-> AbsentDate] }

\* A state with an inventory, with or without recipes and pricing history,
\* and without meal plans and shopping lists.
JobStates ==
    { [EmptyAppState EXCEPT !.inventory = <<inv>>, !.recipes = rec,
                            !.pricingHistory = prices] :
        inv \in RecordLists(JobShapes, MaxRetentionRecords),
        rec \in {<<>>} \cup {<<<<[id |-> 1, updatedAt |-> f.updatedAt,
                                  createdAt |-> f.createdAt,
                                  archivedAt |-> f.archivedAt]>>>> : f \in JobShapes},
        prices \in {<<>>} \cup {<<<<point>>>> : point \in JobPricePoints} }

\* The instants at which the jobs run: now, a day later, and around 30 days
\* after now.
JobInstants ==
    {RetentionNow, RetentionNow + TicksPerDay, RetentionNow + 30 * TicksPerDay - 1,
     RetentionNow + 30 * TicksPerDay}

InitJobs ==
    /\ appState \in JobStates
    /\ jobNow = RetentionNow
    /\ jobReport = <<>>
    /\ jobRuns = 0
    /\ inventoryItems = <<>>
    /\ IdleRec /\ IdlePlan /\ IdleShop /\ IdleSync
    /\ IdleMigrate /\ IdleRetention /\ IdleLate

\* One run of the jobs on the state the previous run returned, at a clock
\* reading that is not before the previous one.
RunRetentionJobs ==
    /\ jobRuns < MaxRuns
    /\ \E t \in JobInstants :
          /\ t >= jobNow
          /\ LET result == runRetentionJobs(appState, [now |-> t])
             IN  /\ appState' = result.state
                 /\ jobReport' = <<result.report>>
          /\ jobNow' = t
    /\ jobRuns' = jobRuns + 1
    /\ UNCHANGED <<inventoryItems, recVars, planVars, shopVars, syncVars>>
    /\ UNCHANGED <<migVars, retVars, lateVars>>

SpecJobs == InitJobs /\ [][RunRetentionJobs]_vars

----------------------------------------------------------------------------
(* Retention jobs: properties *)

\* C17: a record that a run left in the archived inventory with archivedAt t
\* is still there after every later run with now - t < 30 days, and the first
\* run with now - t >= 30 days removes it and counts it in inventoryDeleted.
C17_ArchivedUntilDeleteWindow ==
    [][ jobRuns' = jobRuns + 1 =>
          \A i \in 1..Len(orEmpty(appState.archivedInventory)) :
              LET record == orEmpty(appState.archivedInventory)[i]
              IN  Parses(record.archivedAt) =>
                    IF jobNow' - record.archivedAt.ms < 30 * TicksPerDay
                    THEN record \in Range(orEmpty(appState'.archivedInventory))
                    ELSE /\ ~HasId(orEmpty(appState'.archivedInventory), record.id)
                         /\ jobReport'[1].inventoryDeleted >= 1 ]_vars

\* The collections under the general policy: where the active records, the
\* archived records and the deleted count of each are returned.
GeneralCollections ==
    { [active |-> "inventory", archived |-> "archivedInventory",
       deleted |-> "inventoryDeleted"],
      [active |-> "recipes", archived |-> "archivedRecipes",
       deleted |-> "recipeDeleted"],
      [active |-> "mealPlans", archived |-> "archivedMealPlans",
       deleted |-> "mealPlanDeleted"],
      [active |-> "shoppingLists", archived |-> "archivedShoppingLists",
       deleted |-> "shoppingListDeleted"] }

\* How many records of an array carry the id.
CountId(records, id) == Cardinality({k \in 1..Len(records) : records[k].id = id})

\* C22: one run of runRetentionJobs accounts for every input record: each
\* record of inventory, recipes, mealPlans and shoppingLists is returned in
\* the active collection, or in the archived collection, or is counted as
\* deleted, never twice, so input count = active + archived + deleted count;
\* pricing input count = retained + pricingDeleted; a missing collection
\* counts as empty.
C22_EveryRecordAccountedFor ==
    [][ jobRuns' = jobRuns + 1 =>
          /\ \A c \in GeneralCollections :
                LET input == orEmpty(appState[c.active])
                    active == orEmpty(appState'[c.active])
                    archived == orEmpty(appState'[c.archived])
                    deleted == jobReport'[1][c.deleted]
                    gone == {i \in 1..Len(input) :
                                CountId(active, input[i].id)
                                    + CountId(archived, input[i].id) = 0}
                IN  /\ appState'[c.active] # <<>>
                    /\ appState'[c.archived] # <<>>
                    /\ Len(input) = Len(active) + Len(archived) + deleted
                    /\ \A i \in 1..Len(input) :
                          CountId(active, input[i].id)
                              + CountId(archived, input[i].id) <= 1
                    /\ Cardinality(gone) = deleted
          /\ appState'.pricingHistory # <<>>
          /\ Len(orEmpty(appState.pricingHistory))
                = Len(orEmpty(appState'.pricingHistory)) + jobReport'[1].pricingDeleted
    ]_vars

\* A first run, 30 days on, that archives one inventory record and deletes
\* the other and the only price point, in a state without meal plans.
C22_Witness ==
    /\ jobRuns = 1
    /\ jobNow = RetentionNow + 30 * TicksPerDay
    /\ jobReport[1].inventoryDeleted = 1
    /\ Len(orEmpty(appState.archivedInventory)) = 1
    /\ appState.inventory = << <<>> >>
    /\ appState.mealPlans = << <<>> >>
    /\ jobReport[1].mealPlanDeleted = 0
    /\ jobReport[1].pricingDeleted = 1

----------------------------------------------------------------------------
(* Shopping: emitted items against the data model *)

\* Demand rows as the planner emits them: one row per item and unit.
DistinctDemandKeys ==
    \A i, j \in 1..Len(shopDemand) :
        (/\ shopDemand[i].inventoryItemId = shopDemand[j].inventoryItemId
         /\ shopDemand[i].unit = shopDemand[j].unit) => i = j

CanonicalDemand ==
    \A i \in 1..Len(shopDemand) :
        /\ ID_PATTERN(Chars(shopDemand[i].inventoryItemId))
        /\ validateUnit(shopDemand[i].unit)
        /\ shopDemand[i].requiredQuantity > 0

\* C26: every shopping item emitted by generateShoppingItems from demand rows
\* with canonical inventory ids, canonical units and positive required
\* quantities passes validateShoppingItem: its id matches
\* ^[a-z]+_[a-z0-9_]+_[0-9]{3,}$, requiredQuantity > 0, availableQuantity >= 0,
\* missingQuantity >= 0 and the unit is canonical; ids are unique within one
\* output.
C26_EmittedItemsAreValid ==
    (shoppingItems # <<>> /\ CanonicalDemand) =>
        /\ \A k \in 1..Len(shoppingItems[1]) :
              validateShoppingItem(shoppingItems[1][k]) = {}
        /\ DistinctDemandKeys =>
              \A k, m \in 1..Len(shoppingItems[1]) :
                  shoppingItems[1][k].id = shoppingItems[1][m].id => k = m

----------------------------------------------------------------------------
(* Recommendations: unit tokens and classification *)

\* The ingredient lines of the evaluated recipe whose inventory item exists
\* and whose unit token is not a canonical unit.
NonCanonicalLines ==
    {i \in 1..Len(evaluation[1].recipe.ingredients) :
        /\ inventoryById(inventoryItems,
                         evaluation[1].recipe.ingredients[i].inventoryItemId) # <<>>
        /\ ~validateUnit(evaluation[1].recipe.ingredients[i].unit)}

\* C23: an ingredient whose unit token is a legacy count alias ('pcs', 'unit',
\* 'item') or any other token that is not a canonical unit, evaluated against
\* an existing inventory item, is not matched and yields a shortage whose
\* reason reports 'Unsupported unit: <token>'.
C23_LegacyAliasesUnsupported ==
    evaluation # <<>> =>
        LET e == evaluation[1]
        IN  /\ e.coverage.matched <= e.coverage.total - Cardinality(NonCanonicalLines)
            /\ \A i \in NonCanonicalLines :
                  LET ingredient == e.recipe.ingredients[i]
                  IN  \E k \in 1..Len(e.shortages) :
                        /\ e.shortages[k].inventoryItemId = ingredient.inventoryItemId
                        /\ e.shortages[k].requiredUnit = ingredient.unit
                        /\ e.shortages[k].reason.text = "Unsupported unit"
                        /\ e.shortages[k].reason.a = ingredient.unit

\* The inventory item an ingredient line refers to, <<>> when there is none.
ItemOf(ingredient) ==
    LET hits == {i \in 1..Len(inventoryItems) :
                    inventoryItems[i].id = ingredient.inventoryItemId}
    IN  IF hits = {} THEN <<>> ELSE <<inventoryItems[CHOOSE i \in hits : TRUE]>>

\* A quantity converts to base units when its unit is in the evaluator's
\* table and the quantity is not negative.
Converts(quantity, unit) == unit \in DOMAIN UNIT_TO_BASE /\ quantity >= 0

InBase(quantity, unit) == quantity * UNIT_TO_BASE[unit].toBaseFactor

FamilyOf(unit) == UNIT_TO_BASE[unit].family

\* The ingredient's item exists, both quantities convert, the families are
\* equal and the stock covers the requirement.
IsMatchedLine(ingredient) ==
    /\ ItemOf(ingredient) # <<>>
    /\ Converts(ingredient.quantity, ingredient.unit)
    /\ Converts(ItemOf(ingredient)[1].quantity, ItemOf(ingredient)[1].unit)
    /\ FamilyOf(ingredient.unit) = FamilyOf(ItemOf(ingredient)[1].unit)
    /\ InBase(ItemOf(ingredient)[1].quantity, ItemOf(ingredient)[1].unit)
          >= InBase(ingredient.quantity, ingredient.unit)

IsFamilyMismatch(ingredient) ==
    /\ ItemOf(ingredient) # <<>>
    /\ Converts(ingredient.quantity, ingredient.unit)
    /\ Converts(ItemOf(ingredient)[1].quantity, ItemOf(ingredient)[1].unit)
    /\ FamilyOf(ingredient.unit) # FamilyOf(ItemOf(ingredient)[1].unit)

\* The positions of the lines that are not matched, in recipe order.
RECURSIVE UnmatchedLines(_, _)
UnmatchedLines(ingredients, from) ==
    IF from > Len(ingredients) THEN <<>>
    ELSE (IF IsMatchedLine(ingredients[from]) THEN <<>> ELSE <<from>>)
         \o UnmatchedLines(ingredients, from + 1)

\* C27: evaluateRecipeRecommendation classifies every ingredient exactly
\* once: it counts as matched iff its inventory item exists, both quantities
\* convert to base units, the unit families are equal and availableBase >=
\* requiredBase; every other ingredient contributes exactly one shortage, a
\* family mismatch one whose reason names both families.  Hence
\* coverage.matched + shortages.length = coverage.total.
C27_EveryIngredientClassifiedOnce ==
    evaluation # <<>> =>
        LET e == evaluation[1]
            lines == e.recipe.ingredients
            unmatched == UnmatchedLines(lines, 1)
        IN  /\ e.coverage.total = Len(lines)
            /\ e.coverage.matched = Len(lines) - Len(unmatched)
            /\ Len(e.shortages) = Len(unmatched)
            /\ e.coverage.matched + Len(e.shortages) = e.coverage.total
            /\ \A k \in 1..Len(unmatched) :
                  LET ingredient == lines[unmatched[k]]
                      shortage == e.shortages[k]
                  IN  /\ shortage.inventoryItemId = ingredient.inventoryItemId
                      /\ shortage.requiredQuantity = ingredient.quantity
                      /\ shortage.requiredUnit = ingredient.unit
                      /\ IsFamilyMismatch(ingredient) <=>
                            shortage.reason.text = "Unit family mismatch"
                      /\ IsFamilyMismatch(ingredient) =>
                            /\ shortage.reason.a = FamilyOf(ingredient.unit)
                            /\ shortage.reason.b = FamilyOf(ItemOf(ingredient)[1].unit)

\* A recipe with a matched line converted from kilograms and a line whose
\* item is counted while the recipe asks for grams.
C27_Witness ==
    /\ evaluation # <<>>
    /\ Len(evaluation[1].recipe.ingredients) = 2
    /\ evaluation[1].recipe.ingredients[1].unit = "kg"
    /\ IsMatchedLine(evaluation[1].recipe.ingredients[1])
    /\ IsFamilyMismatch(evaluation[1].recipe.ingredients[2])
    /\ evaluation[1].coverage.matched = 1
    /\ Len(evaluation[1].shortages) = 1
    /\ evaluation[1].shortages[1].reason =
          [text |-> "Unit family mismatch", a |-> "mass", b |-> "count"]

\* The whole days from now to the expiry instant, rounded down: the integer d
\* with d days <= expiry - now < d + 1 days.
WholeDaysUntil(expiry) ==
    CHOOSE d \in -3..3 :
        /\ d * MS_PER_DAY <= expiry.day * MS_PER_DAY - now
        /\ expiry.day * MS_PER_DAY - now < (d + 1) * MS_PER_DAY

\* The day counts of the matched lines whose item has a parseable expiry date.
MatchedExpiryDays(lines) ==
    { WholeDaysUntil(ItemOf(lines[i])[1].expiryDate) :
        i \in {k \in 1..Len(lines) : /\ IsMatchedLine(lines[k])
                                     /\ ItemOf(lines[k])[1].expiryDate.kind = "date"} }

\* C29: rankingFactors.daysUntilMostUrgentExpiry is the minimum, over the
\* matched ingredients whose inventory item has a parseable expiry date, of
\* floor((expiry - now) / one day), negative when already expired;
\* ingredients that produced a shortage never contribute; it is +Infinity
\* when no matched ingredient has an expiry date, and
\* hasExpiringIngredientSignal is true exactly when the value is finite.
C29_MostUrgentExpiryOverMatchedLines ==
    evaluation # <<>> =>
        LET factors == evaluation[1].rankingFactors
            days == MatchedExpiryDays(evaluation[1].recipe.ingredients)
        IN  /\ days = {} => factors.daysUntilMostUrgentExpiry = POSITIVE_INFINITY
            /\ days # {} =>
                  /\ factors.daysUntilMostUrgentExpiry \in days
                  /\ \A d \in days : factors.daysUntilMostUrgentExpiry <= d
            /\ factors.hasExpiringIngredientSignal <=> days # {}

\* The matched line's item expires within the day; the other line is a
\* shortage on an item that expired already, which does not count.
C29_Witness ==
    /\ evaluation # <<>>
    /\ now = HalfDayMs
    /\ Len(evaluation[1].recipe.ingredients) = 2
    /\ IsMatchedLine(evaluation[1].recipe.ingredients[1])
    /\ ~IsMatchedLine(evaluation[1].recipe.ingredients[2])
    /\ ItemOf(evaluation[1].recipe.ingredients[2]) # <<>>
    /\ ItemOf(evaluation[1].recipe.ingredients[2])[1].expiryDate = ExpiryOn(0)
    /\ evaluation[1].rankingFactors.daysUntilMostUrgentExpiry = 0
    /\ evaluation[1].rankingFactors.hasExpiringIngredientSignal

\* Both lines are matched and the more urgent item expired half a day ago.
C29_ExpiredWitness ==
    /\ evaluation # <<>>
    /\ now = HalfDayMs
    /\ Len(evaluation[1].recipe.ingredients) = 2
    /\ \A i \in 1..2 : IsMatchedLine(evaluation[1].recipe.ingredients[i])
    /\ evaluation[1].rankingFactors.daysUntilMostUrgentExpiry = -1

----------------------------------------------------------------------------
(* Pricing retention: inputs and actions *)

MaxPricePoints == 2

\* 2026-12-31T00:00:00.000Z
YearEnd == DaysFromCivil(2026, 12, 31) * TicksPerDay

\* The retention job's clock with the default window and with a window of one
\* month, and the clock of the 12-month test.
PricingOptions ==
    { [now |-> RetentionNow, retainMonths |-> <<>>],
      [now |-> RetentionNow, retainMonths |-> <<1>>],
      [now |-> YearEnd, retainMonths |-> <<12>>] }

\* Instants one tick before, and exactly at, 2025-03-10, 2026-02-10 and
\* 2025-12-31 (midnight UTC).
PricingInstants ==
    UNION { {IsoDate(day * TicksPerDay - 1), DateOnly(day)} :
            day \in {DaysFromCivil(2025, 3, 10), DaysFromCivil(2026, 2, 10),
                     DaysFromCivil(2025, 12, 31)} }

PricingLongAgo == DateOnly(DaysFromCivil(2024, 10, 1))

PricingRecent == DateOnly(DaysFromCivil(2026, 11, 30))

\* Price points dated by recordedAt alone, by createdAt because recordedAt is
\* absent or malformed, and by a recent recordedAt next to an old createdAt.
PricePointShapes ==
    [recordedAt : PricingInstants, createdAt : {AbsentDate}]
    \cup
    [recordedAt : {AbsentDate, MalformedDate},
     createdAt : {AbsentDate, MalformedDate, PricingLongAgo, PricingRecent}]
    \cup
    {[recordedAt |-> PricingRecent, createdAt |-> PricingLongAgo]}

\* Arrays of up to max price points; the point at position k carries id k.
PricePointLists(shapes, max) ==
    UNION { { [k \in 1..n |-> [id |-> k, recordedAt |-> f[k].recordedAt,
                               createdAt |-> f[k].createdAt]] :
              f \in [1..n -> shapes] } :
            n \in 0..max }

InitPricing ==
    /\ pricePoints \in PricePointLists(PricePointShapes, MaxPricePoints)
    /\ pricingOptions \in PricingOptions
    /\ pricingResult = <<>>
    /\ inventoryItems = <<>>
    /\ IdleRec /\ IdlePlan /\ IdleShop /\ IdleSync
    /\ IdleMigrate /\ IdleRetention /\ IdleJobs /\ IdleMealPlan /\ IdleLookup /\ IdleExport

ApplyPricingRetention ==
    /\ pricingResult = <<>>
    /\ pricingResult' = <<applyPricingRetention(pricePoints, pricingOptions)>>
    /\ UNCHANGED <<pricePoints, pricingOptions>>
    /\ UNCHANGED <<inventoryItems, recVars, planVars, shopVars, syncVars>>
    /\ UNCHANGED <<migVars, retVars, jobVars, mealVars, lookupVars, exportVars>>

SpecPricing == InitPricing /\ [][ApplyPricingRetention]_vars

----------------------------------------------------------------------------
(* Pricing retention: properties *)

\* The months counted from year 0 of the day an instant falls on.
MonthNumber(ms) ==
    LET date == CivilFromDays(ms \div TicksPerDay)
    IN  date.year * 12 + date.month

\* The instant k calendar months before nowMs: same day of the month and
\* same time of day, k months earlier.
MonthsEarlier(nowMs, k) ==
    CHOOSE t \in (nowMs - (31 * k + 1) * TicksPerDay)..(nowMs - 28 * k * TicksPerDay) :
        /\ MonthNumber(nowMs) - MonthNumber(t) = k
        /\ CivilFromDays(t \div TicksPerDay).day = CivilFromDays(nowMs \div TicksPerDay).day
        /\ t % TicksPerDay = nowMs % TicksPerDay

RetainMonths == IF pricingOptions.retainMonths = <<>> THEN 12 ELSE pricingOptions.retainMonths[1]

\* The effective timestamp of a price point: recordedAt, else createdAt.
EffectiveDate(point) ==
    IF Parses(point.recordedAt) THEN point.recordedAt ELSE point.createdAt

IsExpiredPoint(point) ==
    /\ Parses(EffectiveDate(point))
    /\ EffectiveDate(point).ms < MonthsEarlier(pricingOptions.now, RetainMonths)

\* C21: applyPricingRetention deletes a price point exactly when its effective
\* timestamp (recordedAt, else createdAt) parses and is strictly earlier than
\* now minus retainMonths calendar months (12 by default); every other point,
\* one with unparseable dates included, is retained; every input point is in
\* exactly one of retained and deleted.
C21_PricingDeletedIffOlderThanWindow ==
    pricingResult # <<>> =>
        \A i \in 1..Len(pricePoints) :
            LET point == pricePoints[i]
                inRetained == Cardinality({k \in 1..Len(pricingResult[1].retained) :
                                              pricingResult[1].retained[k] = point})
                inDeleted == Cardinality({k \in 1..Len(pricingResult[1].deleted) :
                                              pricingResult[1].deleted[k] = point})
            IN  /\ inRetained + inDeleted = 1
                /\ inDeleted = 1 <=> IsExpiredPoint(point)
                /\ Len(pricingResult[1].retained) + Len(pricingResult[1].deleted)
                       = Len(pricePoints)

\* A point one tick older than the window is deleted, after a point exactly
\* at the window's edge, which is retained.
C21_Witness ==
    /\ pricingResult # <<>>
    /\ Len(pricePoints) = 2
    /\ Parses(pricePoints[1].recordedAt)
    /\ pricePoints[1].recordedAt.ms = MonthsEarlier(pricingOptions.now, RetainMonths)
    /\ pricePoints[2].recordedAt.ms = MonthsEarlier(pricingOptions.now, RetainMonths) - 1
    /\ pricingResult[1].retained = <<pricePoints[1]>>
    /\ pricingResult[1].deleted = <<pricePoints[2]>>

----------------------------------------------------------------------------
(* Meal plan: inputs and actions *)

MaxAddCalls == 4

\* Entries for two dates and two slots; two entries may differ in the recipe
\* only.
MealPlanEntries ==
    [date : {"2026-03-10", "2026-03-11"}, slot : {"breakfast", "dinner"},
     recipeId : {"recipe_a", "recipe_b"}]

InitMealPlan ==
    /\ rollingEntries = <<>>
    /\ plannedEntry = <<>>
    /\ addThrew = FALSE
    /\ addCalls = 0
    /\ inventoryItems = <<>>
    /\ IdleRec /\ IdlePlan /\ IdleShop /\ IdleSync
    /\ IdleMigrate /\ IdleRetention /\ IdleJobs /\ IdlePricing /\ IdleLookup /\ IdleExport

\* The caller adds an entry to the list it holds and keeps the list when the
\* call throws: try { rollingEntries = addMealPlanEntry(...) } catch {}
AddMealPlanEntry ==
    /\ addCalls < MaxAddCalls
    /\ \E entry \in MealPlanEntries :
          LET result == addMealPlanEntry(rollingEntries, entry)
          IN  /\ plannedEntry' = <<entry>>
              /\ addThrew' = result.threw
              /\ rollingEntries' = IF result.threw THEN rollingEntries ELSE result.value
    /\ addCalls' = addCalls + 1
    /\ UNCHANGED <<inventoryItems, recVars, planVars, shopVars, syncVars>>
    /\ UNCHANGED <<migVars, retVars, jobVars, priceVars, lookupVars, exportVars>>

SpecMealPlan == InitMealPlan /\ [][AddMealPlanEntry]_vars

----------------------------------------------------------------------------
(* Meal plan: properties *)

SameSlot(a, b) == a.date = b.date /\ a.slot = b.slot

NoDuplicateSlots ==
    \A i, j \in 1..Len(rollingEntries) :
        SameSlot(rollingEntries[i], rollingEntries[j]) => i = j

\* C24: addMealPlanEntry raises an error when the existing entries already
\* hold an entry with the new entry's date and slot, and the existing list is
\* then unchanged; otherwise it returns the existing entries followed by the
\* new entry.  Hence a list built from the empty list by addMealPlanEntry
\* calls never holds two entries with the same date and slot.
C24_DuplicateSlotRejected ==
    /\ []NoDuplicateSlots
    /\ [][ addCalls' = addCalls + 1 =>
             IF \E i \in 1..Len(rollingEntries) :
                    SameSlot(rollingEntries[i], plannedEntry'[1])
             THEN addThrew' /\ rollingEntries' = rollingEntries
             ELSE ~addThrew' /\ rollingEntries' = rollingEntries \o plannedEntry' ]_vars

\* A call for an occupied slot with another recipe threw, after two entries
\* on the same date in different slots were added.
C24_Witness ==
    /\ addThrew
    /\ Len(rollingEntries) = 2
    /\ rollingEntries[1].date = rollingEntries[2].date
    /\ \E i \in 1..2 : /\ SameSlot(rollingEntries[i], plannedEntry[1])
                       /\ rollingEntries[i].recipeId # plannedEntry[1].recipeId

----------------------------------------------------------------------------
(* Barcode lookup *)

MAX_LOOKUP_ATTEMPTS == 3

\* What a provider call meets: the browser offline, fetch rejecting, an HTTP
\* status, and for status 200 the body (not JSON, no product, a product that
\* cannot be mapped to a draft, a product).
ProviderConditions ==
    { [online |-> FALSE, fetch |-> "ok", status |-> 200, body |-> "product"],
      [online |-> TRUE, fetch |-> "throws", status |-> 0, body |-> ""],
      [online |-> TRUE, fetch |-> "ok", status |-> 429, body |-> ""],
      [online |-> TRUE, fetch |-> "ok", status |-> 503, body |-> ""],
      [online |-> TRUE, fetch |-> "ok", status |-> 404, body |-> ""],
      [online |-> TRUE, fetch |-> "ok", status |-> 200, body |-> "not_json"],
      [online |-> TRUE, fetch |-> "ok", status |-> 200, body |-> "no_product"],
      [online |-> TRUE, fetch |-> "ok", status |-> 200, body |-> "unmappable"],
      [online |-> TRUE, fetch |-> "ok", status |-> 200, body |-> "product"] }

Failure(kind) == [ok |-> FALSE, draft |-> FALSE, kind |-> kind]

\* adapter.lookupByBarcode: draft tells whether a draft is carried, kind is
\* error.kind ("" for error: null).
lookupByBarcode(condition) ==
    IF ~condition.online THEN Failure("offline")
    ELSE IF condition.fetch = "throws" THEN Failure("transient")
    ELSE IF condition.status = 429 THEN Failure("rate_limit")
    ELSE IF condition.status >= 500 THEN Failure("transient")
    ELSE IF condition.status = 404 THEN Failure("not_found")
    ELSE IF condition.body = "not_json" THEN Failure("malformed")
    ELSE IF condition.body = "no_product" THEN Failure("not_found")
    ELSE IF condition.body = "unmappable" THEN Failure("malformed")
    ELSE [ok |-> TRUE, draft |-> TRUE, kind |-> ""]

\* Mutant: every failure is retried.
endsLookup_SuccessOnly(result) == result.ok

\* result.ok || result.error?.kind !== 'transient'
endsLookup(result) == result.ok \/ result.kind # "transient"

\* The feedback runLookup shows for the result of lookupWithRetry.
feedbackFor(result) ==
    IF result.ok /\ result.draft
    THEN [source |-> "Open Food Facts", level |-> "success", kind |-> ""]
    ELSE IF result.kind \in {"rate_limit", "not_found", "malformed", "offline"}
    THEN [source |-> "manual entry", level |-> "info", kind |-> result.kind]
    ELSE [source |-> "manual entry", level |-> "info", kind |-> "retries"]

\* state.items.find((item) => item.barcode === barcode) || null
getLocalMatchByBarcode(items, barcode) ==
    \E i \in 1..Len(items) : items[i].barcode = barcode

----------------------------------------------------------------------------
(* Barcode lookup: inputs and actions *)

MaxLookups == 2

Lookups == 1..MaxLookups

\* The local inventory knows one barcode.
LookupInventory == <<[id |-> "item_a", barcode |-> "5000112548167"]>>

\* The trimmed input: empty, the known barcode, an unknown one.
LookupInputs == {"", "5000112548167", "7622210449283"}

InitLookup ==
    /\ inventoryItems = LookupInventory
    /\ lookupPc = [p \in Lookups |-> "idle"]
    /\ lookupBarcode = [p \in Lookups |-> ""]
    /\ lookupAttempt = [p \in Lookups |-> 0]
    /\ adapterCalls = [p \in Lookups |-> 0]
    /\ providerResults = [p \in Lookups |-> <<>>]
    /\ lookupFeedback = [p \in Lookups |-> <<>>]
    /\ IdleRec /\ IdlePlan /\ IdleShop /\ IdleSync
    /\ IdleMigrate /\ IdleRetention /\ IdleJobs /\ IdlePricing /\ IdleMealPlan /\ IdleExport

\* A click on the lookup button: runLookup up to its first await.
RunLookup(p) ==
    /\ lookupPc[p] = "idle"
    /\ \E barcode \in LookupInputs :
          /\ lookupBarcode' = [lookupBarcode EXCEPT ![p] = barcode]
          /\ IF barcode = ""
             THEN /\ lookupFeedback' = [lookupFeedback EXCEPT ![p] =
                        <<[source |-> "input", level |-> "error", kind |-> "empty"]>>]
                  /\ lookupPc' = [lookupPc EXCEPT ![p] = "done"]
                  /\ UNCHANGED <<lookupAttempt, adapterCalls>>
             ELSE IF getLocalMatchByBarcode(inventoryItems, barcode)
             THEN /\ lookupFeedback' = [lookupFeedback EXCEPT ![p] =
                        <<[source |-> "Local inventory", level |-> "success", kind |-> ""]>>]
                  /\ lookupPc' = [lookupPc EXCEPT ![p] = "done"]
                  /\ UNCHANGED <<lookupAttempt, adapterCalls>>
             ELSE /\ lookupAttempt' = [lookupAttempt EXCEPT ![p] = 1]
                  /\ adapterCalls' = [adapterCalls EXCEPT ![p] = @ + 1]
                  /\ lookupPc' = [lookupPc EXCEPT ![p] = "awaiting"]
                  /\ UNCHANGED lookupFeedback
    /\ UNCHANGED providerResults
    /\ UNCHANGED <<inventoryItems, recVars, planVars, shopVars, syncVars>>
    /\ UNCHANGED <<migVars, retVars, jobVars, priceVars, mealVars, exportVars>>

\* The awaited adapter call settles: the rest of the loop body of
\* lookupWithRetry and, when it returns, the rest of runLookup.
AdapterSettles(p) ==
    /\ lookupPc[p] = "awaiting"
    /\ \E condition \in ProviderConditions :
          LET result == lookupByBarcode(condition)
          IN  /\ providerResults' = [providerResults EXCEPT ![p] = Append(@, result)]
              /\ IF endsLookup(result)
                 THEN /\ lookupFeedback' = [lookupFeedback EXCEPT ![p] = <<feedbackFor(result)>>]
                      /\ lookupPc' = [lookupPc EXCEPT ![p] = "done"]
                      /\ UNCHANGED <<lookupAttempt, adapterCalls>>
                 ELSE IF lookupAttempt[p] = MAX_LOOKUP_ATTEMPTS
                 THEN /\ lookupFeedback' = [lookupFeedback EXCEPT ![p] =
                            <<feedbackFor(Failure("transient"))>>]
                      /\ lookupPc' = [lookupPc EXCEPT ![p] = "done"]
                      /\ UNCHANGED <<lookupAttempt, adapterCalls>>
                 ELSE /\ lookupAttempt' = [lookupAttempt EXCEPT ![p] = @ + 1]
                      /\ adapterCalls' = [adapterCalls EXCEPT ![p] = @ + 1]
                      /\ UNCHANGED <<lookupPc, lookupFeedback>>
    /\ UNCHANGED lookupBarcode
    /\ UNCHANGED <<inventoryItems, recVars, planVars, shopVars, syncVars>>
    /\ UNCHANGED <<migVars, retVars, jobVars, priceVars, mealVars, exportVars>>

NextLookup == \E p \in Lookups : RunLookup(p) \/ AdapterSettles(p)

SpecLookup == InitLookup /\ [][NextLookup]_vars

----------------------------------------------------------------------------
(* Barcode lookup: properties *)

IsTransient(result) == ~result.ok /\ result.kind = "transient"

Started(p) == lookupPc[p] # "idle" /\ lookupBarcode[p] # ""

HasLocalMatch(p) == \E i \in 1..Len(inventoryItems) : inventoryItems[i].barcode = lookupBarcode[p]

\* C25: in a barcode lookup the provider adapter is never called when the
\* local inventory has a match; otherwise it is called at least once and at
\* most 3 times, a further call being made only after a transient failure: a
\* success or a non-transient error ends the lookup at once with that result,
\* and 3 consecutive transient failures end it as a failure that falls back
\* to manual entry.
C25_ProviderCalledOnlyOnMissAndRetriedOnTransient ==
    \A p \in Lookups :
        Started(p) =>
            IF HasLocalMatch(p)
            THEN /\ adapterCalls[p] = 0
                 /\ lookupPc[p] = "done"
                 /\ lookupFeedback[p][1].source = "Local inventory"
            ELSE
            LET results == providerResults[p]
                n == Len(results)
            IN  /\ adapterCalls[p] \in 1..3
                /\ adapterCalls[p] = n + (IF lookupPc[p] = "awaiting" THEN 1 ELSE 0)
                /\ \A k \in 1..(adapterCalls[p] - 1) : IsTransient(results[k])
                /\ lookupPc[p] = "awaiting" => lookupFeedback[p] = <<>>
                /\ lookupPc[p] = "done" =>
                      IF IsTransient(results[n])
                      THEN /\ n = 3
                           /\ lookupFeedback[p][1].source = "manual entry"
                           /\ lookupFeedback[p][1].kind = "retries"
                      ELSE IF results[n].ok
                      THEN lookupFeedback[p][1].source = "Open Food Facts"
                      ELSE /\ lookupFeedback[p][1].source = "manual entry"
                           /\ lookupFeedback[p][1].kind = results[n].kind

\* One lookup ended after a transient failure followed by a rate limit,
\* while another gave up after three transient failures.
C25_Witness ==
    \E p, q \in Lookups :
        /\ lookupPc[p] = "done" /\ lookupPc[q] = "done"
        /\ Len(providerResults[p]) = 2
        /\ providerResults[p][2].kind = "rate_limit"
        /\ adapterCalls[q] = 3
        /\ \A k \in 1..3 : IsTransient(providerResults[q][k])
        /\ lookupFeedback[q][1].kind = "retries"

----------------------------------------------------------------------------
(* Export and sync *)

SYNC_DRIFT_TOLERANCE_MS == 120000

\* An application state is a name and whether it has passed the retention
\* jobs, which have their own section: runRetentionJobs(state).state.
retainedState(state) == [name |-> state.name, retained |-> TRUE]

\* createSyncEnvelope(retainedState, { deviceId, source }): exportedAtUtc is
\* the clock reading of the call.
exportEnvelope(state, nowMs) ==
    [schemaVersion |-> SYNC_SCHEMA_VERSION,
     exportedAtUtc |-> [kind |-> "iso", ms |-> nowMs],
     deviceId |-> "device",
     source |-> "pantrymanager-web-export",
     state |-> <<state>>]

\* driveClient.downloadEnvelope: null when there is no file; the file holds a
\* current-schema envelope, which migrateSyncEnvelope returns as it is.
downloadEnvelope(file) ==
    IF file = <<>> THEN <<>>
    ELSE IF file[1].schemaVersion >= SYNC_SCHEMA_VERSION THEN file
    ELSE <<>>

----------------------------------------------------------------------------
(* Export and sync: inputs and actions *)

\* Steps of the clock: 0, 1, 3, 5 and 10 minutes.
ExportInstants == {0, 60000, 180000, 300000, 600000}

\* What another device left in Drive: nothing, or an envelope exported at one
\* of the instants (or with a timestamp that does not parse), holding the
\* other device's state or none.
DriveFiles ==
    {<<>>} \cup
    {<<[schemaVersion |-> SYNC_SCHEMA_VERSION, exportedAtUtc |-> ts,
        deviceId |-> "other-device", source |-> "pantrymanager-web-export",
        state |-> st]>> :
          ts \in {[kind |-> "iso", ms |-> t] : t \in ExportInstants}
                 \cup {[kind |-> "malformed", ms |-> 0]},
          st \in {<<[name |-> "remote", retained |-> TRUE]>>, <<>>}}

\* The local data last changed at or before the moment the export is
\* triggered; the other device's clock may be ahead of this one.
InitExport ==
    /\ exportPc = "idle"
    /\ accessToken \in {"", "token"}
    /\ exportClock \in ExportInstants
    /\ localChangedAt \in {t \in ExportInstants : t <= exportClock}
    /\ currentState = <<[name |-> "local", retained |-> FALSE]>>
    /\ storedState = <<>>
    /\ driveFile \in DriveFiles
    /\ syncStatus = ""
    /\ localEnvelope = <<>>
    /\ remoteEnvelope = <<>>
    /\ syncOptions = [driftToleranceMs |-> <<SYNC_DRIFT_TOLERANCE_MS>>]
    /\ decision = <<>>
    /\ resolution = <<>>
    /\ inventoryItems = <<>>
    /\ IdleRec /\ IdlePlan /\ IdleShop
    /\ IdleMigrate /\ IdleRetention /\ IdleJobs
    /\ IdlePricing /\ IdleMealPlan /\ IdleLookup

\* triggerExportOrSync up to its first await.
TriggerExportOrSync ==
    /\ exportPc = "idle"
    /\ LET retained == retainedState(currentState[1])
       IN  /\ localEnvelope' = <<exportEnvelope(retained, exportClock)>>
           /\ storedState' = <<retained>>
    /\ IF accessToken = ""
       THEN /\ syncStatus' = "exported locally only"
            /\ exportPc' = "done"
       ELSE /\ syncStatus' = syncStatus
            /\ exportPc' = "downloading"
    /\ UNCHANGED <<accessToken, exportClock, localChangedAt, currentState, driveFile>>
    /\ UNCHANGED <<remoteEnvelope, syncOptions, decision, resolution>>
    /\ UNCHANGED <<inventoryItems, recVars, planVars, shopVars>>
    /\ UNCHANGED <<migVars, retVars, jobVars, priceVars, mealVars, lookupVars>>

\* The download settles: it throws, or the conflict is resolved and either
\* the remote state is applied or the upload of the local envelope starts.
DownloadSettles ==
    /\ exportPc = "downloading"
    /\ \/ /\ syncStatus' = "sync failed"
          /\ exportPc' = "done"
          /\ UNCHANGED <<remoteEnvelope, resolution, currentState, storedState,
                         localEnvelope>>
       \/ LET downloaded == downloadEnvelope(driveFile)
              resolved == resolveSyncConflict(localEnvelope, downloaded, syncOptions)
          IN  /\ remoteEnvelope' = downloaded
              /\ resolution' = <<resolved>>
              /\ IF resolved.source = "remote" /\ resolved.state # <<>>
                 THEN /\ currentState' = <<retainedState(resolved.state[1])>>
                      /\ storedState' = <<retainedState(resolved.state[1])>>
                      /\ localEnvelope' = downloaded
                      /\ syncStatus' = "remote version applied"
                      /\ exportPc' = "done"
                 ELSE /\ exportPc' = "uploading"
                      /\ UNCHANGED <<currentState, storedState, localEnvelope, syncStatus>>
    /\ UNCHANGED <<accessToken, exportClock, localChangedAt, driveFile>>
    /\ UNCHANGED <<syncOptions, decision>>
    /\ UNCHANGED <<inventoryItems, recVars, planVars, shopVars>>
    /\ UNCHANGED <<migVars, retVars, jobVars, priceVars, mealVars, lookupVars>>

\* The upload settles: the file in Drive is replaced by the local envelope,
\* or the request fails.
UploadSettles ==
    /\ exportPc = "uploading"
    /\ \/ /\ driveFile' = localEnvelope
          /\ syncStatus' = "synced to Google Drive"
       \/ /\ driveFile' = driveFile
          /\ syncStatus' = "sync failed"
    /\ exportPc' = "done"
    /\ UNCHANGED <<accessToken, exportClock, localChangedAt, currentState, storedState>>
    /\ UNCHANGED syncVars
    /\ UNCHANGED <<inventoryItems, recVars, planVars, shopVars>>
    /\ UNCHANGED <<migVars, retVars, jobVars, priceVars, mealVars, lookupVars>>

NextExport == TriggerExportOrSync \/ DownloadSettles \/ UploadSettles

SpecExport == InitExport /\ [][NextExport]_vars

----------------------------------------------------------------------------
(* Export and sync: properties *)

\* The downloaded snapshot carries a state and was exported after the local
\* data last changed, by more than the drift tolerance.
RemoteIsNewerThanLocalData ==
    /\ remoteEnvelope # <<>>
    /\ remoteEnvelope[1].state # <<>>
    /\ remoteEnvelope[1].exportedAtUtc.kind = "iso"
    /\ remoteEnvelope[1].exportedAtUtc.ms - localChangedAt > SYNC_DRIFT_TOLERANCE_MS

\* C30: in an export/sync with an access token the newest snapshot wins: if a
\* remote snapshot exists that was exported after the local data last
\* changed, by more than the 120000 ms drift tolerance, the remote state is
\* applied locally and the local snapshot is not uploaded over it; the local
\* snapshot is uploaded only when it is the newer one or the two are within
\* tolerance.
C30_NewestSnapshotWins ==
    (accessToken # "" /\ resolution # <<>>) =>
        /\ RemoteIsNewerThanLocalData =>
              /\ exportPc = "done"
              /\ syncStatus = "remote version applied"
              /\ currentState = <<retainedState(remoteEnvelope[1].state[1])>>
              /\ driveFile = remoteEnvelope
        /\ exportPc = "uploading" => ~RemoteIsNewerThanLocalData
        /\ syncStatus = "synced to Google Drive" => ~RemoteIsNewerThanLocalData

====
